---------------------------- MODULE Spec2Model ----------------------------
(***************************************************************************)
(* Model of the filter compiler of rainbow-roads (package paint):          *)
(* buildQuery / buildCriteria, the four AST rewrite passes of expr.go      *)
(* (expandInArray, expandInRange, distributeAndFoldNot, toDNF) and the     *)
(* queryBuilder code generator.                                            *)
(*                                                                         *)
(* The AST is a heap of nodes addressed by pointer (a node id); a slot is  *)
(* the place holding a pointer (an ast.Node): the root slot or a child     *)
(* slot of a node.  ast.Patch overwrites a slot, the passes also assign    *)
(* fields of existing nodes, so a node reachable from two slots is seen    *)
(* changed from both.                                                      *)
(***************************************************************************)
EXTENDS Integers, Sequences, FiniteSets, TLC

VARIABLES
    filter,   \* the parsed filter expression (a tree value), or ParseFailure
    region,   \* geo.Circle: Radius and Origin.Lat / Origin.Lon
    pc,       \* position inside buildQuery / buildCriteria
    tree,     \* the AST heap being rewritten: [n : Seq(node), root : id]
    parsed,   \* the AST heap as the parser returned it
    qb,       \* queryBuilder: [stack, not, depth, err]; panic: a run-time panic
    crits,    \* criteria list returned by buildCriteria (<<>> is nil)
    cerr,     \* error returned by buildCriteria ("" is nil)
    query,    \* query text returned by buildQuery
    qerr,     \* error returned by buildQuery ("" is nil)
    pairs,    \* the package variable operatorPairs (a map)
    ranged,   \* init(): the keys the range loop has produced so far
    log       \* the calls of buildQuery that returned, oldest first

vars == <<filter, region, pc, tree, parsed, qb, crits, cerr, query, qerr,
          pairs, ranged, log>>

-----------------------------------------------------------------------------
(* Bounds of the model *)

\* longest array literal of a generated membership test
MaxArr == 2
\* longest chain of unary negations put in front of a generated test
MaxNot == 2
\* longest chain of unary negations put in front of a chain base
MaxChain == 5
\* number of calls of buildQuery a process makes
MaxCalls == 3

-----------------------------------------------------------------------------
(* AST node values, as the external parser builds them *)

Node(k, op, val, num, b, c) ==
    [k |-> k, op |-> op, val |-> val, num |-> num, b |-> b, c |-> c]

NilNode              == Node("Nil", "", "", 0, FALSE, <<>>)
IdentifierNode(v)    == Node("Identifier", "", v, 0, FALSE, <<>>)
IntegerNode(i)       == Node("Integer", "", "", i, FALSE, <<>>)
\* a float literal, held in thousandths
FloatNode(m)         == Node("Float", "", "", m, FALSE, <<>>)
BoolNode(v)          == Node("Bool", "", "", 0, v, <<>>)
StringNode(v)        == Node("String", "", v, 0, FALSE, <<>>)
ArrayNode(ns)        == Node("Array", "", "", 0, FALSE, ns)
UnaryNode(op, n)     == Node("Unary", op, "", 0, FALSE, <<n>>)
BinaryNode(op, l, r) == Node("Binary", op, "", 0, FALSE, <<l, r>>)
MatchesNode(l, r)    == Node("Matches", "matches", "", 0, FALSE, <<l, r>>)
FunctionNode(f, as)  == Node("Function", "", f, 0, FALSE, as)
ConditionalNode(c, e1, e2) == Node("Conditional", "", "", 0, FALSE, <<c, e1, e2>>)
\* member access obj.prop: the object, then the property
MemberNode(obj, prop) == Node("Member", "", "", 0, FALSE, <<obj, prop>>)

-----------------------------------------------------------------------------
(* The heap *)

\* a heap node: the fields of the value, children held by pointer
HeapNode(t, kids) ==
    [k |-> t.k, op |-> t.op, val |-> t.val, num |-> t.num, b |-> t.b, kids |-> kids]

EmptyHeap == [n |-> <<>>, root |-> 0]

\* allocation of a fresh node; its pointer is NewId
New(H, rec) == [H EXCEPT !.n = Append(@, rec)]
NewId(H)    == Len(H.n) + 1

RootSlot == <<0, 0>>

\* *node
Deref(H, slot) ==
    IF slot[1] = 0 THEN H.root ELSE H.n[slot[1]].kids[slot[2]]

\* ast.Patch: *node = newNode
Patch(H, slot, id) ==
    IF slot[1] = 0
    THEN [H EXCEPT !.root = id]
    ELSE [H EXCEPT !.n[slot[1]].kids[slot[2]] = id]

\* parser.Parse builds a tree: every node is allocated once and referenced
\* from exactly one slot (the pointer of an allocated node is never nil)
RECURSIVE LoadNode(_, _), LoadKids(_, _, _, _)
LoadNode(H, t) ==
    LET r == LoadKids(H, t.c, 1, <<>>)
    IN  [h |-> New(r.h, HeapNode(t, r.ids)), id |-> NewId(r.h)]
LoadKids(H, cs, i, ids) ==
    IF i > Len(cs) THEN [h |-> H, ids |-> ids]
    ELSE LET r == LoadNode(H, cs[i])
         IN  IF r.id > 0 THEN LoadKids(r.h, cs, i + 1, Append(ids, r.id))
             ELSE [h |-> H, ids |-> ids]

Parse(t) ==
    LET r == LoadNode(EmptyHeap, t) IN [r.h EXCEPT !.root = r.id]

\* the expression a pointer denotes, read back as a tree value
RECURSIVE TreeAt(_, _), TreesAt(_, _, _)
TreeAt(H, id) ==
    LET nd == H.n[id]
    IN  Node(nd.k, nd.op, nd.val, nd.num, nd.b, TreesAt(H, nd.kids, 1))
TreesAt(H, kids, i) ==
    IF i > Len(kids) THEN <<>>
    ELSE <<TreeAt(H, kids[i])>> \o TreesAt(H, kids, i + 1)

TreeOf(H) == TreeAt(H, H.root)

-----------------------------------------------------------------------------
(* expr.go: node classifiers *)

asBinaryIn(H, id) ==
    H.n[id].k = "Binary" /\ H.n[id].op \in {"in", "not in"}

asBinaryAnd(H, id) ==
    H.n[id].k = "Binary" /\ H.n[id].op \in {"and", "&&"}

asBinaryOr(H, id) ==
    H.n[id].k = "Binary" /\ H.n[id].op \in {"or", "||"}

asUnaryNot(H, id) ==
    H.n[id].k = "Unary" /\ H.n[id].op \in {"not", "!"}

-----------------------------------------------------------------------------
(* expr.go: expandInArray *)

\* the loop over an.Nodes with the operands of every new disjunction exchanged
RECURSIVE InArrayElemsNewFirst(_, _, _, _, _)
InArrayElemsNewFirst(H, slot, bi, an, i) ==
    IF i > Len(H.n[an].kids) THEN H
    ELSE LET eq == [k |-> "Binary", op |-> "==", val |-> "", num |-> 0, b |-> FALSE,
                    kids |-> <<H.n[bi].kids[1], H.n[an].kids[i]>>]
             H1 == New(H, eq)
             eqId == NewId(H)
             or == [k |-> "Binary", op |-> "or", val |-> "", num |-> 0, b |-> FALSE,
                    kids |-> <<eqId, Deref(H, slot)>>]
             H2 == IF i = 1 THEN Patch(H1, slot, eqId)
                   ELSE Patch(New(H1, or), slot, NewId(H1))
         IN  InArrayElemsNewFirst(H2, slot, bi, an, i + 1)

RECURSIVE InArrayElems(_, _, _, _, _)
\* the loop over an.Nodes
InArrayElems(H, slot, bi, an, i) ==
    IF i > Len(H.n[an].kids) THEN H
    ELSE LET eq == [k |-> "Binary", op |-> "==", val |-> "", num |-> 0, b |-> FALSE,
                    kids |-> <<H.n[bi].kids[1], H.n[an].kids[i]>>]
             H1 == New(H, eq)
             eqId == NewId(H)
             or == [k |-> "Binary", op |-> "or", val |-> "", num |-> 0, b |-> FALSE,
                    kids |-> <<Deref(H, slot), eqId>>]
             H2 == IF i = 1 THEN Patch(H1, slot, eqId)
                   ELSE Patch(New(H1, or), slot, NewId(H1))
         IN  InArrayElems(H2, slot, bi, an, i + 1)

\* the empty array not treated apart
ExpandInArrayExitNoEmpty(H, slot) ==
    LET bi == Deref(H, slot) IN
    IF asBinaryIn(H, bi) /\ H.n[H.n[bi].kids[2]].k = "Array"
    THEN LET an == H.n[bi].kids[2]
             H1 == InArrayElems(H, slot, bi, an, 1)
             not == [k |-> "Unary", op |-> "not", val |-> "", num |-> 0, b |-> FALSE,
                     kids |-> <<Deref(H1, slot)>>]
         IN  IF H.n[bi].op = "not in"
             THEN Patch(New(H1, not), slot, NewId(H1))
             ELSE H1
    ELSE H

ExpandInArrayExit(H, slot) ==
    LET bi == Deref(H, slot) IN
    IF asBinaryIn(H, bi) /\ H.n[H.n[bi].kids[2]].k = "Array"
    THEN LET an == H.n[bi].kids[2]
             H1 == IF Len(H.n[an].kids) = 0
                   THEN Patch(New(H, HeapNode(BoolNode(FALSE), <<>>)), slot, NewId(H))
                   ELSE InArrayElems(H, slot, bi, an, 1)
             not == [k |-> "Unary", op |-> "not", val |-> "", num |-> 0, b |-> FALSE,
                     kids |-> <<Deref(H1, slot)>>]
         IN  IF H.n[bi].op = "not in"
             THEN Patch(New(H1, not), slot, NewId(H1))
             ELSE H1
    ELSE H

\* ast.Walk(&tree.Node, &expandInArray{}): Enter is empty, children are
\* walked in order, then Exit
RECURSIVE WalkInArray(_, _), WalkInArrayKids(_, _, _)
WalkInArray(H, slot) ==
    ExpandInArrayExit(WalkInArrayKids(H, Deref(H, slot), 1), slot)
WalkInArrayKids(H, id, i) ==
    IF i > Len(H.n[id].kids) THEN H
    ELSE WalkInArrayKids(WalkInArray(H, <<id, i>>), id, i + 1)

-----------------------------------------------------------------------------
(* expr.go: expandInRange *)

\* integer and float literals compared as numbers
getValueNumeric(H, id) ==
    LET nd == H.n[id] IN
    CASE nd.k = "Nil"     -> [t |-> "nil", s |-> "", i |-> 0, b |-> FALSE]
      [] nd.k = "Integer" -> [t |-> "number", s |-> "", i |-> nd.num * 1000, b |-> FALSE]
      [] nd.k = "Float"   -> [t |-> "number", s |-> "", i |-> nd.num, b |-> FALSE]
      [] nd.k = "Bool"    -> [t |-> "bool", s |-> "", i |-> 0, b |-> nd.b]
      [] nd.k = "String"  -> [t |-> "string", s |-> nd.val, i |-> 0, b |-> FALSE]
      [] OTHER            -> [t |-> "node", s |-> nd.k, i |-> id, b |-> FALSE]

\* getValue: the value of a literal node, the node pointer itself otherwise;
\* two results are equal as Go interface values when they have the same
\* dynamic type and the same value
getValue(H, id) ==
    LET nd == H.n[id] IN
    CASE nd.k = "Nil"     -> [t |-> "nil", s |-> "", i |-> 0, b |-> FALSE]
      [] nd.k = "Integer" -> [t |-> "int", s |-> "", i |-> nd.num, b |-> FALSE]
      [] nd.k = "Float"   -> [t |-> "float64", s |-> "", i |-> nd.num, b |-> FALSE]
      [] nd.k = "Bool"    -> [t |-> "bool", s |-> "", i |-> 0, b |-> nd.b]
      [] nd.k = "String"  -> [t |-> "string", s |-> nd.val, i |-> 0, b |-> FALSE]
      [] OTHER            -> [t |-> "node", s |-> nd.k, i |-> id, b |-> FALSE]

BinaryRec(op, l, r) ==
    [k |-> "Binary", op |-> op, val |-> "", num |-> 0, b |-> FALSE, kids |-> <<l, r>>]
UnaryRec(op, n) ==
    [k |-> "Unary", op |-> op, val |-> "", num |-> 0, b |-> FALSE, kids |-> <<n>>]

ExpandInRangeExit(H, slot) ==
    LET bi == Deref(H, slot) IN
    IF /\ asBinaryIn(H, bi)
       /\ H.n[H.n[bi].kids[2]].k = "Binary"
       /\ H.n[H.n[bi].kids[2]].op = ".."
    THEN LET br == H.n[bi].kids[2]
             left == H.n[bi].kids[1]
             lo == H.n[br].kids[1]
             hi == H.n[br].kids[2]
             Heq == Patch(New(H, BinaryRec("==", left, lo)), slot, NewId(H))
             Hge == New(H, BinaryRec(">=", left, lo))
             Hle == New(Hge, BinaryRec("<=", left, hi))
             Hand == Patch(New(Hle, BinaryRec("and", NewId(H), NewId(Hge))),
                           slot, NewId(Hle))
             H1 == IF getValue(H, lo) = getValue(H, hi) THEN Heq ELSE Hand
         IN  IF H.n[bi].op = "not in"
             THEN Patch(New(H1, UnaryRec("not", Deref(H1, slot))), slot, NewId(H1))
             ELSE H1
    ELSE H

\* ast.Walk(&tree.Node, &expandInRange{})
RECURSIVE WalkInRange(_, _), WalkInRangeKids(_, _, _)
WalkInRange(H, slot) ==
    ExpandInRangeExit(WalkInRangeKids(H, Deref(H, slot), 1), slot)
WalkInRangeKids(H, id, i) ==
    IF i > Len(H.n[id].kids) THEN H
    ELSE WalkInRangeKids(WalkInRange(H, <<id, i>>), id, i + 1)

-----------------------------------------------------------------------------
(* expr.go: operatorPairs and distributeAndFoldNot *)

\* the map literal
operatorPairsLiteral ==
    [o \in {"and", "&&", "==", ">=", ">", "in"} |->
        CASE o = "and" -> "or"
          [] o = "&&"  -> "||"
          [] o = "=="  -> "!="
          [] o = ">="  -> "<"
          [] o = ">"   -> "<="
          [] o = "in"  -> "not in"]

\* the map after init() added every pair in the opposite direction
operatorPairsInitialised ==
    LET lit == operatorPairsLiteral
        vals == {lit[o] : o \in DOMAIN lit}
    IN  [o \in DOMAIN lit \cup vals |->
            IF o \in vals THEN CHOOSE k \in DOMAIN lit : lit[k] = o ELSE lit[o]]

\* a loop body that stores nothing
initAssignNothing(T, k) == T

\* operatorPairs[v] = k, the body of the range loop of init()
initAssign(T, k) ==
    [o \in DOMAIN T \cup {T[k]} |-> IF o = T[k] THEN k ELSE T[o]]

\* the map without the pairs init() adds
operatorPairsWithoutInit ==
    [o \in {"and", "&&", "==", ">=", ">", "in"} |-> operatorPairsLiteral[o]]

\* the package variable, as the passes read it
operatorPairs == pairs

RECURSIVE DistributeAndFoldNotEnter(_, _), WalkFoldNot(_, _), WalkFoldNotKids(_, _, _)
\* the negation distributed over the left operand only
DistributeAndFoldNotEnterLeftOnly(H, slot) ==
    LET un == Deref(H, slot) IN
    IF ~asUnaryNot(H, un) THEN H
    ELSE
    LET bn == H.n[un].kids[1] IN
    IF H.n[bn].k = "Binary"
    THEN IF H.n[bn].op \in DOMAIN operatorPairs
         THEN LET op == operatorPairs[H.n[bn].op]
                  Hl == New(H, UnaryRec(H.n[un].op, H.n[bn].kids[1]))
                  Hr == New(Hl, UnaryRec(H.n[un].op, H.n[bn].kids[2]))
                  Hd == [Hr EXCEPT !.n[bn].kids = <<NewId(H), H.n[bn].kids[2]>>]
                  H1 == IF H.n[bn].op \in {"and", "&&", "or", "||"} THEN Hd ELSE H
                  H2 == [H1 EXCEPT !.n[bn].op = op]
              IN  Patch(H2, slot, bn)
         ELSE H
    ELSE IF asUnaryNot(H, bn)
    THEN LET H1 == WalkFoldNot(H, <<bn, 1>>)
         IN  Patch(H1, slot, H1.n[bn].kids[1])
    ELSE IF H.n[bn].k = "Bool"
    THEN Patch([H EXCEPT !.n[bn].b = ~@], slot, bn)
    ELSE H

\* a double negation removed without normalizing what it held
DistributeAndFoldNotEnterOnce(H, slot) ==
    LET un == Deref(H, slot) IN
    IF ~asUnaryNot(H, un) THEN H
    ELSE
    LET bn == H.n[un].kids[1] IN
    IF H.n[bn].k = "Binary"
    THEN IF H.n[bn].op \in DOMAIN operatorPairs
         THEN LET op == operatorPairs[H.n[bn].op]
                  Hl == New(H, UnaryRec(H.n[un].op, H.n[bn].kids[1]))
                  Hr == New(Hl, UnaryRec(H.n[un].op, H.n[bn].kids[2]))
                  Hd == [Hr EXCEPT !.n[bn].kids = <<NewId(H), NewId(Hl)>>]
                  H1 == IF H.n[bn].op \in {"and", "&&", "or", "||"} THEN Hd ELSE H
                  H2 == [H1 EXCEPT !.n[bn].op = op]
              IN  Patch(H2, slot, bn)
         ELSE H
    ELSE IF asUnaryNot(H, bn)
    THEN Patch(H, slot, H.n[bn].kids[1])
    ELSE IF H.n[bn].k = "Bool"
    THEN Patch([H EXCEPT !.n[bn].b = ~@], slot, bn)
    ELSE H

\* a negated boolean literal flipped under a negation that is kept
DistributeAndFoldNotEnterBoolKept(H, slot) ==
    LET un == Deref(H, slot) IN
    IF ~asUnaryNot(H, un) THEN H
    ELSE
    LET bn == H.n[un].kids[1] IN
    IF H.n[bn].k = "Binary"
    THEN IF H.n[bn].op \in DOMAIN operatorPairs
         THEN LET op == operatorPairs[H.n[bn].op]
                  Hl == New(H, UnaryRec(H.n[un].op, H.n[bn].kids[1]))
                  Hr == New(Hl, UnaryRec(H.n[un].op, H.n[bn].kids[2]))
                  Hd == [Hr EXCEPT !.n[bn].kids = <<NewId(H), NewId(Hl)>>]
                  H1 == IF H.n[bn].op \in {"and", "&&", "or", "||"} THEN Hd ELSE H
                  H2 == [H1 EXCEPT !.n[bn].op = op]
              IN  Patch(H2, slot, bn)
         ELSE H
    ELSE IF asUnaryNot(H, bn)
    THEN LET H1 == WalkFoldNot(H, <<bn, 1>>)
         IN  Patch(H1, slot, H1.n[bn].kids[1])
    ELSE IF H.n[bn].k = "Bool"
    THEN [H EXCEPT !.n[bn].b = ~@]
    ELSE H

\* distributeAndFoldNot.Enter
DistributeAndFoldNotEnter(H, slot) ==
    LET un == Deref(H, slot) IN
    IF ~asUnaryNot(H, un) THEN H
    ELSE
    LET bn == H.n[un].kids[1] IN
    IF H.n[bn].k = "Binary"
    THEN IF H.n[bn].op \in DOMAIN operatorPairs
         THEN LET op == operatorPairs[H.n[bn].op]
                  \* bn.Left = &UnaryNode{...}; bn.Right = &UnaryNode{...}
                  Hl == New(H, UnaryRec(H.n[un].op, H.n[bn].kids[1]))
                  Hr == New(Hl, UnaryRec(H.n[un].op, H.n[bn].kids[2]))
                  Hd == [Hr EXCEPT !.n[bn].kids = <<NewId(H), NewId(Hl)>>]
                  H1 == IF H.n[bn].op \in {"and", "&&", "or", "||"} THEN Hd ELSE H
                  \* bn.Operator = op
                  H2 == [H1 EXCEPT !.n[bn].op = op]
              IN  Patch(H2, slot, bn)
         ELSE H
    ELSE IF asUnaryNot(H, bn)
    THEN \* ast.Walk(&n.Node, d); ast.Patch(node, n.Node)
         LET H1 == WalkFoldNot(H, <<bn, 1>>)
         IN  Patch(H1, slot, H1.n[bn].kids[1])
    ELSE IF H.n[bn].k = "Bool"
    THEN \* b.Value = !b.Value
         Patch([H EXCEPT !.n[bn].b = ~@], slot, bn)
    ELSE H

\* ast.Walk(&tree.Node, &distributeAndFoldNot{}): the children walked are
\* those of the node the slot holds after Enter; Exit is empty
WalkFoldNot(H, slot) ==
    LET H1 == DistributeAndFoldNotEnter(H, slot)
    IN  WalkFoldNotKids(H1, Deref(H1, slot), 1)
WalkFoldNotKids(H, id, i) ==
    IF i > Len(H.n[id].kids) THEN H
    ELSE WalkFoldNotKids(WalkFoldNot(H, <<id, i>>), id, i + 1)

-----------------------------------------------------------------------------
(* expr.go: toDNF *)

\* for limit := 1000; limit >= 0; limit--
DnfLimit == 1000

\* Enter that never counts depth: every node taken for one of the chain
DnfEnterEverywhere(S, slot) == S

\* dnf.Enter; S = [h, depth, applied]
DnfEnter(S, slot) ==
    LET id == Deref(S.h, slot) IN
    IF S.depth > 0 THEN [S EXCEPT !.depth = @ + 1]
    ELSE IF ~(asBinaryAnd(S.h, id) \/ asBinaryOr(S.h, id))
    THEN [S EXCEPT !.depth = @ + 1]
    ELSE S

\* a disjunction distributed only when it is the left operand
DnfExitLeftOnly(S, slot) ==
    LET H == S.h
        ba == Deref(H, slot)
    IN
    IF S.depth > 0 THEN [S EXCEPT !.depth = @ - 1]
    ELSE IF ~asBinaryAnd(H, ba) THEN S
    ELSE
    LET l == H.n[ba].kids[1]
        r == H.n[ba].kids[2]
        aop == H.n[ba].op
    IN
    IF asBinaryOr(H, l)
    THEN LET H1 == New(H, BinaryRec(aop, H.n[l].kids[1], r))
             H2 == New(H1, BinaryRec(aop, H.n[l].kids[2], r))
             H3 == New(H2, BinaryRec(H.n[l].op, NewId(H), NewId(H1)))
         IN  [S EXCEPT !.h = Patch(H3, slot, NewId(H2)), !.applied = TRUE]
    ELSE S

\* a conjunction without a disjunction below it rebuilt with its operands
\* exchanged
DnfExitCommute(S, slot) ==
    LET H == S.h
        ba == Deref(H, slot)
    IN
    IF S.depth > 0 THEN [S EXCEPT !.depth = @ - 1]
    ELSE IF ~asBinaryAnd(H, ba) THEN S
    ELSE
    LET l == H.n[ba].kids[1]
        r == H.n[ba].kids[2]
        aop == H.n[ba].op
    IN
    IF asBinaryOr(H, l)
    THEN LET H1 == New(H, BinaryRec(aop, H.n[l].kids[1], r))
             H2 == New(H1, BinaryRec(aop, H.n[l].kids[2], r))
             H3 == New(H2, BinaryRec(H.n[l].op, NewId(H), NewId(H1)))
         IN  [S EXCEPT !.h = Patch(H3, slot, NewId(H2)), !.applied = TRUE]
    ELSE IF asBinaryOr(H, r)
    THEN LET H1 == New(H, BinaryRec(aop, l, H.n[r].kids[1]))
             H2 == New(H1, BinaryRec(aop, l, H.n[r].kids[2]))
             H3 == New(H2, BinaryRec(H.n[r].op, NewId(H), NewId(H1)))
         IN  [S EXCEPT !.h = Patch(H3, slot, NewId(H2)), !.applied = TRUE]
    ELSE LET H1 == New(H, BinaryRec(aop, r, l))
         IN  [S EXCEPT !.h = Patch(H1, slot, NewId(H))]

\* dnf.Exit
DnfExit(S, slot) ==
    LET H == S.h
        ba == Deref(H, slot)
    IN
    IF S.depth > 0 THEN [S EXCEPT !.depth = @ - 1]
    ELSE IF ~asBinaryAnd(H, ba) THEN S
    ELSE
    LET l == H.n[ba].kids[1]
        r == H.n[ba].kids[2]
        aop == H.n[ba].op
    IN
    IF asBinaryOr(H, l)
    THEN LET H1 == New(H, BinaryRec(aop, H.n[l].kids[1], r))
             H2 == New(H1, BinaryRec(aop, H.n[l].kids[2], r))
             H3 == New(H2, BinaryRec(H.n[l].op, NewId(H), NewId(H1)))
         IN  [S EXCEPT !.h = Patch(H3, slot, NewId(H2)), !.applied = TRUE]
    ELSE IF asBinaryOr(H, r)
    THEN LET H1 == New(H, BinaryRec(aop, l, H.n[r].kids[1]))
             H2 == New(H1, BinaryRec(aop, l, H.n[r].kids[2]))
             H3 == New(H2, BinaryRec(H.n[r].op, NewId(H), NewId(H1)))
         IN  [S EXCEPT !.h = Patch(H3, slot, NewId(H2)), !.applied = TRUE]
    ELSE S

\* ast.Walk(node, f)
RECURSIVE WalkDnf(_, _), WalkDnfKids(_, _, _)
WalkDnf(S, slot) ==
    LET S1 == DnfEnter(S, slot)
    IN  DnfExit(WalkDnfKids(S1, Deref(S1.h, slot), 1), slot)
WalkDnfKids(S, id, i) ==
    IF i > Len(S.h.n[id].kids) THEN S
    ELSE WalkDnfKids(WalkDnf(S, <<id, i>>), id, i + 1)

\* the rounds of toDNF; the result records how many rounds ran and whether
\* the loop ended on the cap
RECURSIVE ToDNFRounds(_, _, _)
ToDNFRounds(H, limit, rounds) ==
    IF limit < 0 THEN [h |-> H, rounds |-> rounds, capped |-> TRUE]
    ELSE LET S == WalkDnf([h |-> H, depth |-> 0, applied |-> FALSE], RootSlot)
         IN  IF ~S.applied
             THEN [h |-> S.h, rounds |-> rounds + 1, capped |-> FALSE]
             ELSE ToDNFRounds(S.h, limit - 1, rounds + 1)

toDNF(H) == ToDNFRounds(H, DnfLimit, 0).h

-----------------------------------------------------------------------------
(* Text helpers of the code generator *)

Digit(d) == SubSeq("0123456789", d + 1, d + 1)

\* the decimal text of an int, as fmt.Sprint writes it
RECURSIVE Digits(_)
Digits(n) == IF n < 10 THEN Digit(n) ELSE Digits(n \div 10) \o Digit(n % 10)
Itoa(n) == IF n < 0 THEN "-" \o Digits(0 - n) ELSE Digits(n)

\* the shortest decimal text of a float64 held in thousandths, as fmt.Sprint
\* writes a float of this magnitude: no exponent, no trailing zeros
DecimalText(m) ==
    LET a == IF m < 0 THEN 0 - m ELSE m
        f == a % 1000
        frac == IF f = 0 THEN ""
                ELSE IF f % 100 = 0 THEN "." \o Digit(f \div 100)
                ELSE IF f % 10 = 0
                     THEN "." \o Digit(f \div 100) \o Digit((f \div 10) % 10)
                ELSE "." \o Digit(f \div 100) \o Digit((f \div 10) % 10) \o Digit(f % 10)
    IN  (IF m < 0 THEN "-" ELSE "") \o Digits(a \div 1000) \o frac

Letters ==
    {"a", "b", "c", "d", "e", "f", "g", "h", "i", "j", "k", "l", "m",
     "n", "o", "p", "q", "r", "s", "t", "u", "v", "w", "x", "y", "z",
     "A", "B", "C", "D", "E", "F", "G", "H", "I", "J", "K", "L", "M",
     "N", "O", "P", "Q", "R", "S", "T", "U", "V", "W", "X", "Y", "Z"}

\* slices.IndexFunc(...) >= 0: some character is not a basic letter
HasNonLetter(str) == \E i \in 1..Len(str) : SubSeq(str, i, i) \notin Letters

\* strconv.Quote on printable ASCII: the text between double quotes, with
\* double quote and backslash escaped
RECURSIVE QuoteBody(_)
QuoteBody(str) ==
    IF str = "" THEN ""
    ELSE LET ch == Head(str)
             e == IF ch = "\"" THEN "\\\"" ELSE IF ch = "\\" THEN "\\\\" ELSE ch
         IN  e \o QuoteBody(Tail(str))
Quote(str) == "\"" \o QuoteBody(str) \o "\""

RegexpMeta == {"\\", ".", "+", "*", "?", "(", ")", "|", "[", "]", "{", "}", "^", "$"}

\* regexp.QuoteMeta
RECURSIVE QuoteMeta(_)
QuoteMeta(str) ==
    IF str = "" THEN ""
    ELSE LET ch == Head(str)
         IN  (IF ch \in RegexpMeta THEN "\\" \o ch ELSE ch) \o QuoteMeta(Tail(str))

HasPrefix(str, pre) == Len(str) >= Len(pre) /\ SubSeq(str, 1, Len(pre)) = pre

isWrapped(str) == Head(str) = "[" \/ HasPrefix(str, "(if:")

bangIf(str, not) == IF not THEN "!" \o str ELSE str

\* reflect type name of the node, lowercased, without the Node suffix
nodeName(k) ==
    CASE k = "Nil" -> "nil"
      [] k = "Identifier" -> "identifier"
      [] k = "Integer" -> "integer"
      [] k = "Float" -> "float"
      [] k = "Bool" -> "bool"
      [] k = "String" -> "string"
      [] k = "Array" -> "array"
      [] k = "Unary" -> "unary"
      [] k = "Binary" -> "binary"
      [] k = "Matches" -> "matches"
      [] k = "Function" -> "function"
      [] k = "Conditional" -> "conditional"
      [] k = "Member" -> "member"

-----------------------------------------------------------------------------
(* run.go: queryBuilder *)

NewQueryBuilder == [stack |-> <<>>, not |-> <<>>, depth |-> 0, err |-> "", panic |-> FALSE]

\* q.push(a...): the operands are strings, fmt.Sprint concatenates them
push(Q, str) == [Q EXCEPT !.stack = Append(@, str)]

\* q.pop() is peek followed by drop; indexing an empty stack panics
peek(Q) == IF Len(Q.stack) = 0 THEN "" ELSE Q.stack[Len(Q.stack)]
drop(Q) ==
    IF Len(Q.stack) = 0 THEN [Q EXCEPT !.panic = TRUE]
    ELSE [Q EXCEPT !.stack = SubSeq(@, 1, Len(@) - 1)]

\* the flag of a conjunction or disjunction recorded as true
QueryBuilderEnterAllTrue(Q, H, id) ==
    IF Q.depth > 0 THEN [Q EXCEPT !.depth = @ + 1]
    ELSE IF ~asUnaryNot(H, id) /\ ~asBinaryAnd(H, id) /\ ~asBinaryOr(H, id)
    THEN [Q EXCEPT !.depth = @ + 1]
    ELSE [Q EXCEPT !.not = Append(@, TRUE)]

\* the flag of a negation recorded as false
QueryBuilderEnterFlagLost(Q, H, id) ==
    IF Q.depth > 0 THEN [Q EXCEPT !.depth = @ + 1]
    ELSE IF ~asUnaryNot(H, id) /\ ~asBinaryAnd(H, id) /\ ~asBinaryOr(H, id)
    THEN [Q EXCEPT !.depth = @ + 1]
    ELSE [Q EXCEPT !.not = Append(@, FALSE)]

\* queryBuilder.Enter
QueryBuilderEnter(Q, H, id) ==
    IF Q.depth > 0 THEN [Q EXCEPT !.depth = @ + 1]
    ELSE IF ~asUnaryNot(H, id) /\ ~asBinaryAnd(H, id) /\ ~asBinaryOr(H, id)
    THEN [Q EXCEPT !.depth = @ + 1]
    ELSE [Q EXCEPT !.not = Append(@, asUnaryNot(H, id))]

\* case *ast.IdentifierNode
ExitIdentifier(Q, n, root, not) ==
    LET name == IF HasNonLetter(n.val) THEN Quote(n.val) ELSE n.val IN
    IF ~root THEN push(Q, bangIf(name, not))
    ELSE IF not THEN push(Q, "[" \o name \o "=\"no\"]")
    ELSE push(Q, "[" \o name \o "=\"yes\"]")

\* the operands of a conjunction taken in pop order
ExitAndReversed(Q, lhs, rhs, root) ==
    IF ~root \/ (~isWrapped(lhs) /\ ~isWrapped(rhs))
    THEN push(Q, rhs \o "&&" \o lhs)
    ELSE LET l == IF ~isWrapped(lhs) THEN "(if:" \o lhs \o ")" ELSE lhs
             r == IF ~isWrapped(rhs) THEN "(if:" \o rhs \o ")" ELSE rhs
         IN  push(Q, r \o l)

\* a root conjunction never joined with &&
ExitAndAlwaysWrapped(Q, lhs, rhs, root) ==
    IF ~root
    THEN push(Q, lhs \o "&&" \o rhs)
    ELSE LET l == IF ~isWrapped(lhs) THEN "(if:" \o lhs \o ")" ELSE lhs
             r == IF ~isWrapped(rhs) THEN "(if:" \o rhs \o ")" ELSE rhs
         IN  push(Q, l \o r)

\* case "and", "&&"
ExitAnd(Q, lhs, rhs, root) ==
    IF ~root \/ (~isWrapped(lhs) /\ ~isWrapped(rhs))
    THEN push(Q, lhs \o "&&" \o rhs)
    ELSE LET l == IF ~isWrapped(lhs) THEN "(if:" \o lhs \o ")" ELSE lhs
             r == IF ~isWrapped(rhs) THEN "(if:" \o rhs \o ")" ELSE rhs
         IN  push(Q, l \o r)

\* a root disjunction split only when both sides are wrapped
ExitOrBothWrapped(Q, lhs, rhs, root) ==
    IF ~root \/ ~(isWrapped(lhs) /\ isWrapped(rhs))
    THEN push(Q, lhs \o "||" \o rhs)
    ELSE push(push(Q, lhs), rhs)

\* a root disjunction always joined inline
ExitOrJoined(Q, lhs, rhs, root) == push(Q, lhs \o "||" \o rhs)

\* case "or", "||"
ExitOr(Q, lhs, rhs, root) ==
    IF ~root \/ (~isWrapped(lhs) /\ ~isWrapped(rhs))
    THEN push(Q, lhs \o "||" \o rhs)
    ELSE push(push(Q, lhs), rhs)

\* case ">", ">=", "<", "<="
ExitCompare(Q, H, n, lhs, rhs) ==
    LET l == IF H.n[n.kids[1]].k = "Identifier"
             THEN "t[" \o (IF Head(lhs) # "\"" THEN Quote(lhs) ELSE lhs) \o "]"
             ELSE lhs
    IN  push(Q, l \o n.op \o rhs)

\* != emitted without flipping the pending negation
ExitOperatorNoFlip(Q, H, n, lhs0, rhs0, root0, not0) ==
    LET rightIsString == H.n[n.kids[2]].k = "String"
        op1 == IF n.op \in {"contains", "startsWith", "endsWith"} THEN "~" ELSE n.op
        rhs1 == CASE n.op = "contains" /\ rightIsString -> QuoteMeta(rhs0)
                  [] n.op = "startsWith" /\ rightIsString ->
                        SubSeq(rhs0, 1, 1) \o "^" \o QuoteMeta(Tail(rhs0))
                  [] n.op = "endsWith" /\ rightIsString ->
                        QuoteMeta(SubSeq(rhs0, 1, Len(rhs0) - 1)) \o "$"
                            \o SubSeq(rhs0, Len(rhs0), Len(rhs0))
                  [] OTHER -> rhs0
        okl == H.n[n.kids[1]].k = "Function"
        okr == H.n[n.kids[2]].k = "Function"
        root == IF okl \/ okr THEN FALSE ELSE root0
        eq == op1 \in {"==", "!="}
        swap == eq /\ H.n[n.kids[2]].k = "Identifier"
        lhs == IF swap THEN rhs1 ELSE lhs0
        rhs2 == IF swap THEN lhs0 ELSE rhs1
        not == not0
        op == IF ~eq THEN op1 ELSE IF rhs2 = "\"\"" THEN "~" ELSE "="
        rhs == IF eq /\ rhs2 = "\"\"" THEN "\"^$\"" ELSE rhs2
    IN  IF root
        THEN push(Q, "[" \o lhs \o bangIf(op, not) \o rhs \o "]")
        ELSE push(Q, lhs0 \o bangIf(op1, not0) \o rhs1)

\* a call operand not looked at: the node keeps its root treatment
ExitOperatorRootKept(Q, H, n, lhs0, rhs0, root0, not0) ==
    LET rightIsString == H.n[n.kids[2]].k = "String"
        op1 == IF n.op \in {"contains", "startsWith", "endsWith"} THEN "~" ELSE n.op
        rhs1 == CASE n.op = "contains" /\ rightIsString -> QuoteMeta(rhs0)
                  [] n.op = "startsWith" /\ rightIsString ->
                        SubSeq(rhs0, 1, 1) \o "^" \o QuoteMeta(Tail(rhs0))
                  [] n.op = "endsWith" /\ rightIsString ->
                        QuoteMeta(SubSeq(rhs0, 1, Len(rhs0) - 1)) \o "$"
                            \o SubSeq(rhs0, Len(rhs0), Len(rhs0))
                  [] OTHER -> rhs0
        okl == H.n[n.kids[1]].k = "Function"
        okr == H.n[n.kids[2]].k = "Function"
        root == root0
        eq == op1 \in {"==", "!="}
        swap == eq /\ H.n[n.kids[2]].k = "Identifier"
        lhs == IF swap THEN rhs1 ELSE lhs0
        rhs2 == IF swap THEN lhs0 ELSE rhs1
        not == IF op1 = "!=" THEN ~not0 ELSE not0
        op == IF ~eq THEN op1 ELSE IF rhs2 = "\"\"" THEN "~" ELSE "="
        rhs == IF eq /\ rhs2 = "\"\"" THEN "\"^$\"" ELSE rhs2
    IN  IF root
        THEN push(Q, "[" \o lhs \o bangIf(op, not) \o rhs \o "]")
        ELSE push(Q, lhs0 \o bangIf(op1, not0) \o rhs1)

\* default: the equality family, the string predicates, any other operator
ExitOperator(Q, H, n, lhs0, rhs0, root0, not0) ==
    LET rightIsString == H.n[n.kids[2]].k = "String"
        op1 == IF n.op \in {"contains", "startsWith", "endsWith"} THEN "~" ELSE n.op
        rhs1 == CASE n.op = "contains" /\ rightIsString -> QuoteMeta(rhs0)
                  [] n.op = "startsWith" /\ rightIsString ->
                        SubSeq(rhs0, 1, 1) \o "^" \o QuoteMeta(Tail(rhs0))
                  [] n.op = "endsWith" /\ rightIsString ->
                        QuoteMeta(SubSeq(rhs0, 1, Len(rhs0) - 1)) \o "$"
                            \o SubSeq(rhs0, Len(rhs0), Len(rhs0))
                  [] OTHER -> rhs0
        okl == H.n[n.kids[1]].k = "Function"
        okr == H.n[n.kids[2]].k = "Function"
        root == IF okl \/ okr THEN FALSE ELSE root0
        eq == op1 \in {"==", "!="}
        swap == eq /\ H.n[n.kids[2]].k = "Identifier"
        lhs == IF swap THEN rhs1 ELSE lhs0
        rhs2 == IF swap THEN lhs0 ELSE rhs1
        not == IF op1 = "!=" THEN ~not0 ELSE not0
        op == IF ~eq THEN op1 ELSE IF rhs2 = "\"\"" THEN "~" ELSE "="
        rhs == IF eq /\ rhs2 = "\"\"" THEN "\"^$\"" ELSE rhs2
    IN  IF root
        THEN push(Q, "[" \o lhs \o bangIf(op, not) \o rhs \o "]")
        ELSE push(Q, lhs0 \o bangIf(op1, not0) \o rhs1)

\* case *ast.BinaryNode
ExitBinary(Q, H, n, root, not) ==
    LET rhs == peek(Q)
        lhs == peek(drop(Q))
        Q2 == drop(drop(Q))
    IN  IF Q2.panic THEN Q2
        ELSE CASE n.op \in {"and", "&&"} -> ExitAnd(Q2, lhs, rhs, root)
               [] n.op \in {"or", "||"} -> ExitOr(Q2, lhs, rhs, root)
               [] n.op \in {">", ">=", "<", "<="} -> ExitCompare(Q2, H, n, lhs, rhs)
               [] OTHER -> ExitOperator(Q2, H, n, lhs, rhs, root, not)

\* case *ast.MatchesNode
ExitMatches(Q, root, not) ==
    LET rhs == peek(Q)
        lhs == peek(drop(Q))
        Q2 == drop(drop(Q))
    IN  IF Q2.panic THEN Q2
        ELSE IF root THEN push(Q2, "[" \o lhs \o bangIf("~", not) \o rhs \o "]")
        ELSE push(Q2, lhs \o bangIf("~", not) \o rhs)

\* for range n.Arguments { parts = append(parts, q.pop()) }
RECURSIVE PopArguments(_, _, _)
PopArguments(Q, k, parts) ==
    IF k = 0 \/ Q.panic THEN [q |-> Q, parts |-> parts]
    ELSE PopArguments(drop(Q), k - 1, parts \o peek(Q))

\* every root call of one argument taken for a presence test
ExitFunctionAnyName(Q, n, root, not) ==
    IF root /\ Len(n.kids) = 1
    THEN IF Len(Q.stack) = 0 THEN drop(Q)
         ELSE push(drop(Q), "[" \o bangIf(peek(Q), not) \o "]")
    ELSE LET r == PopArguments(Q, Len(n.kids), bangIf(n.val, not) \o "(")
         IN  IF r.q.panic THEN r.q ELSE push(r.q, r.parts \o ")")

\* case *ast.FunctionNode
ExitFunction(Q, n, root, not) ==
    IF root /\ n.val = "is_tag" /\ Len(n.kids) = 1
    THEN IF Len(Q.stack) = 0 THEN drop(Q)
         ELSE push(drop(Q), "[" \o bangIf(peek(Q), not) \o "]")
    ELSE LET r == PopArguments(Q, Len(n.kids), bangIf(n.val, not) \o "(")
         IN  IF r.q.panic THEN r.q ELSE push(r.q, r.parts \o ")")

\* the fragment of the condition left on the stack
ExitConditionalTwoPops(Q) ==
    LET e2 == peek(Q)
        e1 == peek(drop(Q))
        c == peek(drop(drop(Q)))
        Q2 == drop(drop(Q))
    IN  IF Q2.panic THEN Q2
        ELSE push(Q2, c \o "?" \o e1 \o ":" \o e2)

\* case *ast.ConditionalNode
ExitConditional(Q) ==
    LET e2 == peek(Q)
        e1 == peek(drop(Q))
        c == peek(drop(drop(Q)))
        Q3 == drop(drop(drop(Q)))
    IN  IF Q3.panic THEN Q3
        ELSE push(Q3, c \o "?" \o e1 \o ":" \o e2)

\* Exit without the early return on an error already set
QueryBuilderExitNoReturn(Q0, H, id) ==
    IF Q0.panic THEN Q0
    ELSE
    LET n == H.n[id]
        Q1 == IF Q0.depth > 0 THEN [Q0 EXCEPT !.depth = @ - 1] ELSE Q0
        root == Q1.depth = 0
        popNot == root /\ Len(Q1.not) > 0
        not == IF popNot THEN Q1.not[Len(Q1.not)] ELSE FALSE
        Q == IF popNot THEN [Q1 EXCEPT !.not = SubSeq(@, 1, Len(@) - 1)] ELSE Q1
    IN
    IF not /\ n.k \in {"Integer", "Float", "String"}
    THEN [Q EXCEPT !.err = "inverted " \o nodeName(n.k) \o " not supported"]
    ELSE
    CASE n.k = "Identifier" -> ExitIdentifier(Q, n, root, not)
      [] n.k = "Integer" -> push(Q, Itoa(n.num))
      [] n.k = "Float" -> push(Q, DecimalText(n.num))
      [] n.k = "Bool" -> IF n.b # not THEN push(Q, "\"yes\"") ELSE push(Q, "\"no\"")
      [] n.k = "String" -> push(Q, Quote(n.val))
      [] n.k = "Unary" ->
            IF ~root \/ (n.op # "not" /\ n.op # "!")
            THEN IF Len(Q.stack) = 0 THEN drop(Q)
                 ELSE push(drop(Q), bangIf(n.op, not) \o "(" \o peek(Q) \o ")")
            ELSE Q
      [] n.k = "Binary" -> ExitBinary(Q, H, n, root, not)
      [] n.k = "Matches" -> ExitMatches(Q, root, not)
      [] n.k = "Function" -> ExitFunction(Q, n, root, not)
      [] n.k = "Conditional" -> ExitConditional(Q)
      [] OTHER -> [Q EXCEPT !.err = nodeName(n.k) \o " not supported"]

\* queryBuilder.Exit
QueryBuilderExit(Q0, H, id) ==
    IF Q0.err # "" \/ Q0.panic THEN Q0
    ELSE
    LET n == H.n[id]
        Q1 == IF Q0.depth > 0 THEN [Q0 EXCEPT !.depth = @ - 1] ELSE Q0
        root == Q1.depth = 0
        popNot == root /\ Len(Q1.not) > 0
        not == IF popNot THEN Q1.not[Len(Q1.not)] ELSE FALSE
        Q == IF popNot THEN [Q1 EXCEPT !.not = SubSeq(@, 1, Len(@) - 1)] ELSE Q1
    IN
    IF not /\ n.k \in {"Integer", "Float", "String"}
    THEN [Q EXCEPT !.err = "inverted " \o nodeName(n.k) \o " not supported"]
    ELSE
    CASE n.k = "Identifier" -> ExitIdentifier(Q, n, root, not)
      [] n.k = "Integer" -> push(Q, Itoa(n.num))
      [] n.k = "Float" -> push(Q, DecimalText(n.num))
      [] n.k = "Bool" -> IF n.b # not THEN push(Q, "\"yes\"") ELSE push(Q, "\"no\"")
      [] n.k = "String" -> push(Q, Quote(n.val))
      [] n.k = "Unary" ->
            IF ~root \/ (n.op # "not" /\ n.op # "!")
            THEN IF Len(Q.stack) = 0 THEN drop(Q)
                 ELSE push(drop(Q), bangIf(n.op, not) \o "(" \o peek(Q) \o ")")
            ELSE Q
      [] n.k = "Binary" -> ExitBinary(Q, H, n, root, not)
      [] n.k = "Matches" -> ExitMatches(Q, root, not)
      [] n.k = "Function" -> ExitFunction(Q, n, root, not)
      [] n.k = "Conditional" -> ExitConditional(Q)
      [] OTHER -> [Q EXCEPT !.err = nodeName(n.k) \o " not supported"]

\* ast.Walk(&tree.Node, &qb): the generator only reads the tree; a panic
\* unwinds the walk
RECURSIVE WalkQuery(_, _, _), WalkQueryKids(_, _, _, _)
WalkQuery(Q, H, id) ==
    QueryBuilderExit(WalkQueryKids(QueryBuilderEnter(Q, H, id), H, id, 1), H, id)
WalkQueryKids(Q, H, id, i) ==
    IF Q.panic \/ i > Len(H.n[id].kids) THEN Q
    ELSE WalkQueryKids(WalkQuery(Q, H, H.n[id].kids[i]), H, id, i + 1)

\* the wrapping loop left out
WrapCriteriaSkipped(stack) == stack

\* the loop wrapping the criteria that are not wrapped yet
WrapCriteria(stack) ==
    [i \in 1..Len(stack) |->
        IF ~isWrapped(stack[i]) THEN "(if:" \o stack[i] \o ")" ELSE stack[i]]

-----------------------------------------------------------------------------
(* run.go: buildQuery *)

\* strconv.FormatFloat(val, 'f', 5, 64) of a value held in thousandths
Fixed5(m) ==
    LET a == IF m < 0 THEN 0 - m ELSE m
        f == a % 1000
    IN  (IF m < 0 THEN "-" ELSE "") \o Digits(a \div 1000) \o "."
            \o Digit(f \div 100) \o Digit((f \div 10) % 10) \o Digit(f % 10) \o "00"

\* strings.TrimRight(str, cutset) for a cutset of one character
RECURSIVE TrimRight(_, _)
TrimRight(str, ch) ==
    IF Len(str) > 0 /\ SubSeq(str, Len(str), Len(str)) = ch
    THEN TrimRight(SubSeq(str, 1, Len(str) - 1), ch)
    ELSE str

\* conv.FormatFloat
FormatFloat(val) == TrimRight(TrimRight(Fixed5(val), "0"), ".")

\* geo.RadiansToDegrees, r * 180 / math.Pi; the model holds radians as
\* multiples of pi/180000 and degrees in thousandths, so that the values of
\* the regions are exact
RadiansToDegrees(r) == (r * 180) \div 180

\* fmt.Sprintf("way(around:%s,%s,%s)", ...)
QueryPrefix(reg) ==
    "way(around:" \o FormatFloat(reg.Radius) \o ","
        \o FormatFloat(RadiansToDegrees(reg.Lat)) \o ","
        \o FormatFloat(RadiansToDegrees(reg.Lon)) \o ")"

\* the proximity clause written in front of the first criterion only
RECURSIVE QueryPartsOnePrefix(_, _, _)
QueryPartsOnePrefix(prefix, cs, i) ==
    IF i > Len(cs) THEN <<>>
    ELSE (IF i = 1 THEN <<prefix, cs[i], ";">> ELSE <<cs[i], ";">>)
            \o QueryPartsOnePrefix(prefix, cs, i + 1)

\* parts = append(parts, prefix, crit, ";") for every criterion
RECURSIVE QueryParts(_, _, _)
QueryParts(prefix, cs, i) ==
    IF i > Len(cs) THEN <<>>
    ELSE <<prefix, cs[i], ";">> \o QueryParts(prefix, cs, i + 1)

\* strings.Join(parts, "")
RECURSIVE Join(_)
Join(parts) == IF parts = <<>> THEN "" ELSE Head(parts) \o Join(Tail(parts))

QueryText(reg, cs) ==
    Join(<<"[out:json];(">> \o QueryParts(QueryPrefix(reg), cs, 1)
            \o <<");out tags geom qt;">>)

-----------------------------------------------------------------------------
(* Inputs: the filters handed to buildQuery, as the parser builds them *)

\* a filter text that parser.Parse rejects
ParseFailure == Node("ParseFailure", "", "", 0, FALSE, <<>>)

\* tag names by the kind of value the tag holds
StrIds  == {"highway", "access"}
BoolIds == {"oneway"}
IntIds  == {"lanes"}

StrLits == {StringNode("a"), StringNode("no")}

SeqsUpTo(S, n) == UNION {[1..k -> S] : k \in 0..n}

RECURSIVE NotChain(_, _)
NotChain(k, t) == IF k = 0 THEN t ELSE UnaryNode("not", NotChain(k - 1, t))

\* x in [...], x not in [...]
InTests ==
    {BinaryNode(op, IdentifierNode(x), ArrayNode(vs)) :
        op \in {"in", "not in"}, x \in StrIds, vs \in SeqsUpTo(StrLits, MaxArr)}

EqOperands ==
    {<<IdentifierNode(x), v>> : x \in StrIds, v \in StrLits \cup {StringNode("")}}
    \cup {<<v, IdentifierNode("highway")>> : v \in StrLits}
    \cup {<<IdentifierNode("highway"), IdentifierNode("access")>>,
          <<IdentifierNode("oneway"), BoolNode(TRUE)>>,
          <<IdentifierNode("lanes"), IntegerNode(2)>>,
          <<IdentifierNode("addr_street"), StringNode("a\"b")>>}

\* a == v, a != v
EqTests == {BinaryNode(op, p[1], p[2]) : op \in {"==", "!="}, p \in EqOperands}

CallTests ==
    {FunctionNode("is_tag", <<IdentifierNode(x)>>) : x \in StrIds \cup {"addr_street"}}
    \cup {FunctionNode("is_tag", <<>>),
          FunctionNode("is_tag", <<IdentifierNode("highway"), IdentifierNode("access")>>),
          FunctionNode("count", <<IdentifierNode("highway")>>),
          FunctionNode("count", <<IdentifierNode("highway"), StringNode("a")>>),
          BinaryNode("==", FunctionNode("is_tag", <<IdentifierNode("highway")>>),
                     BoolNode(TRUE)),
          BinaryNode("!=", IntegerNode(2),
                     FunctionNode("count", <<IdentifierNode("highway")>>))}

PlainTests == {IdentifierNode("oneway"), BoolNode(TRUE), BoolNode(FALSE)}

CompareTests ==
    {BinaryNode(op, IdentifierNode("lanes"), IntegerNode(2)) :
        op \in {">", ">=", "<", "<="}}
    \cup {BinaryNode(">", IdentifierNode("lanes"), FloatNode(2500))}

\* x in lo..hi, x not in lo..hi
RangeTests ==
    {BinaryNode(op, IdentifierNode("lanes"),
                BinaryNode("..", IntegerNode(lo), IntegerNode(hi))) :
        op \in {"in", "not in"}, lo \in 1..2, hi \in 1..2}
    \cup {BinaryNode(op, IdentifierNode("lanes"), BinaryNode("..", b[1], b[2])) :
            op \in {"in", "not in"},
            b \in {<<IntegerNode(2), FloatNode(2000)>>,
                   <<FloatNode(2500), FloatNode(2500)>>,
                   <<IdentifierNode("lanes"), IdentifierNode("lanes")>>,
                   <<IntegerNode(1), IdentifierNode("lanes")>>,
                   <<StringNode("a"), StringNode("a")>>,
                   <<BoolNode(TRUE), BoolNode(TRUE)>>,
                   <<NilNode, NilNode>>}}

OtherTests ==
    {MatchesNode(IdentifierNode("highway"), StringNode("a.*")),
     BinaryNode("contains", IdentifierNode("highway"), StringNode("a.b")),
     BinaryNode("startsWith", IdentifierNode("highway"), StringNode("a")),
     BinaryNode("endsWith", IdentifierNode("highway"), StringNode("a")),
     ConditionalNode(IdentifierNode("oneway"), BoolNode(TRUE),
                     BinaryNode("==", IdentifierNode("access"), StringNode("no")))}

\* constructs the generator rejects, or that no pass rewrites
RejectedTests ==
    {NilNode, ArrayNode(<<IdentifierNode("highway")>>),
     BinaryNode("in", IdentifierNode("highway"), IdentifierNode("access")),
     IntegerNode(7), StringNode("a"),
     FunctionNode("count", <<NilNode, NilNode>>)}

NumberAndStringLits == {IntegerNode(7), FloatNode(2500), StringNode("a")}

\* negated integer, float and string literals: alone, as an operand of a
\* conjunction or disjunction, as a function argument, as a comparison operand
NegatedLiteralTests ==
    {UnaryNode(n, l) : n \in {"not", "!"}, l \in NumberAndStringLits}
        \cup {NotChain(3, l) : l \in NumberAndStringLits}
        \cup {BinaryNode(op, UnaryNode("not", l), IdentifierNode("oneway")) :
                op \in {"and", "or"}, l \in NumberAndStringLits}
        \cup {BinaryNode(op, IdentifierNode("oneway"), UnaryNode("not", l)) :
                op \in {"and", "or"}, l \in NumberAndStringLits}
        \cup {FunctionNode("count", <<UnaryNode("not", l)>>) : l \in NumberAndStringLits}
        \cup {BinaryNode(op, IdentifierNode("lanes"), UnaryNode("not", l)) :
                op \in {">", "=="}, l \in NumberAndStringLits}
        \cup {BinaryNode("or",
                    FunctionNode("count", <<UnaryNode("not", IntegerNode(7))>>),
                    UnaryNode("not", FloatNode(2500)))}

\* calls of 0, 1, 2 and 3 arguments, at the root and as a comparison operand
ArityArguments ==
    {<<>>,
     <<IdentifierNode("highway")>>,
     <<IdentifierNode("highway"), StringNode("b")>>,
     <<IdentifierNode("highway"), StringNode("b"), IntegerNode(12)>>,
     <<IdentifierNode("highway"), IdentifierNode("highway")>>}

ArityTests ==
    {FunctionNode("count", as) : as \in ArityArguments}
    \cup {BinaryNode(">", FunctionNode("count", as), IntegerNode(2)) :
            as \in ArityArguments}
    \cup {BinaryNode(">", FunctionNode("is_tag", <<IdentifierNode("highway")>>),
                     IntegerNode(2))}

\* binary nodes with a call as left or right operand
CallOperandTests ==
    {BinaryNode(op, f, v) :
        op \in {"==", "!=", ">", "<=", "contains"},
        f \in {FunctionNode("count", <<IdentifierNode("highway")>>),
               FunctionNode("is_tag", <<IdentifierNode("highway")>>)},
        v \in {IntegerNode(2), IdentifierNode("lanes")}}
    \cup {BinaryNode(op, v, f) :
        op \in {"==", "!=", ">", "<=", "contains"},
        f \in {FunctionNode("count", <<IdentifierNode("highway")>>),
               FunctionNode("is_tag", <<IdentifierNode("highway")>>)},
        v \in {IntegerNode(2), IdentifierNode("lanes")}}

\* (oneway or access) and highway
AndOverOr ==
    BinaryNode("and",
        BinaryNode("or", IdentifierNode("oneway"), IdentifierNode("access")),
        IdentifierNode("highway"))

\* conjunctions and disjunctions below a node that is neither: a function
\* argument, a comparison operand, the operand of a unary minus, a branch of
\* a conditional
NestedLogicTests ==
    {FunctionNode("count", <<BinaryNode(op, a, b)>>) :
        op \in {"and", "or", "&&", "||"},
        a \in {IdentifierNode("oneway"), IdentifierNode("access")},
        b \in {IdentifierNode("oneway"), IdentifierNode("access")}}
    \cup {FunctionNode("count", <<AndOverOr>>),
          BinaryNode(">", IdentifierNode("lanes"), AndOverOr),
          BinaryNode("==", AndOverOr, BoolNode(TRUE)),
          UnaryNode("-", AndOverOr),
          ConditionalNode(IdentifierNode("oneway"), AndOverOr, BoolNode(FALSE)),
          BinaryNode("or", IdentifierNode("oneway"), FunctionNode("count", <<AndOverOr>>)),
          BinaryNode("and", BinaryNode("or", IdentifierNode("oneway"),
                                       FunctionNode("count", <<AndOverOr>>)),
                     FunctionNode("is_tag", <<IdentifierNode("highway")>>))}

TagsName == MemberNode(IdentifierNode("tags"), StringNode("name"))

\* trees with one or several nodes the generator fails on
ErrorTests ==
    {TagsName,
     BinaryNode("==", TagsName, StringNode("a")),
     BinaryNode("or", ArrayNode(<<IdentifierNode("highway")>>), NilNode),
     BinaryNode("and", NilNode, UnaryNode("not", IntegerNode(7))),
     BinaryNode("or", UnaryNode("not", StringNode("a")), NilNode),
     FunctionNode("count", <<TagsName, NilNode>>),
     BinaryNode("or", IdentifierNode("oneway"),
                FunctionNode("count", <<NilNode, ArrayNode(<<>>)>>)),
     BinaryNode("or", IdentifierNode("oneway"),
                BinaryNode("or", UnaryNode("not", FloatNode(2500)), TagsName))}

\* membership tests whose right operand is neither an array nor a range
PlainMembershipTests ==
    {BinaryNode(op, IdentifierNode("highway"), r) :
        op \in {"in", "not in"},
        r \in {IdentifierNode("access"), StringNode("a"), IntegerNode(7),
               FunctionNode("count", <<IdentifierNode("access")>>)}}

\* membership tests whose left operand is itself a compound expression
CompoundLefts ==
    {UnaryNode("not", BinaryNode("==", IdentifierNode("highway"), StringNode("a"))),
     UnaryNode("not", BoolNode(TRUE)),
     UnaryNode("not", IdentifierNode("oneway")),
     BinaryNode("==", IdentifierNode("highway"), StringNode("a"))}

InCompoundTests ==
    {BinaryNode(op, l, ArrayNode(vs)) :
        op \in {"in", "not in"}, l \in CompoundLefts,
        vs \in SeqsUpTo({BoolNode(TRUE), IdentifierNode("oneway")}, MaxArr)}

Tests ==
    InTests \cup EqTests \cup CallTests \cup PlainTests \cup CompareTests
        \cup RangeTests \cup OtherTests \cup RejectedTests \cup InCompoundTests
        \cup PlainMembershipTests \cup NegatedLiteralTests \cup ErrorTests
        \cup NestedLogicTests \cup ArityTests \cup CallOperandTests

NegatedTests == {NotChain(k, t) : k \in 1..MaxNot, t \in Tests}

\* the operands of the generated conjunctions and disjunctions
Core ==
    {BinaryNode("in", IdentifierNode("highway"), ArrayNode(<<StringNode("a")>>)),
     BinaryNode("not in", IdentifierNode("access"), ArrayNode(<<StringNode("no")>>)),
     BinaryNode("in", IdentifierNode("highway"),
                ArrayNode(<<StringNode("a"), StringNode("no")>>)),
     BinaryNode("not in", IdentifierNode("access"),
                ArrayNode(<<StringNode("a"), StringNode("no")>>)),
     BinaryNode("!=", IdentifierNode("access"), StringNode("no")),
     FunctionNode("is_tag", <<IdentifierNode("highway")>>),
     UnaryNode("not", FunctionNode("is_tag", <<IdentifierNode("access")>>)),
     FunctionNode("count", <<IdentifierNode("highway")>>),
     IdentifierNode("oneway"),
     UnaryNode("not", IdentifierNode("oneway")),
     BinaryNode(">=", IdentifierNode("lanes"), IntegerNode(2)),
     BoolNode(TRUE),
     NilNode}

Connectives == {"and", "or", "&&", "||"}

PairTests == {BinaryNode(op, a, b) : op \in Connectives, a \in Core, b \in Core}

NegatedPairs == {UnaryNode("not", BinaryNode(op, a, b)) :
                    op \in {"and", "or"}, a \in Core, b \in Core}

SmallCore ==
    {BinaryNode("==", IdentifierNode("highway"), StringNode("a")),
     FunctionNode("is_tag", <<IdentifierNode("access")>>),
     IdentifierNode("oneway"),
     BinaryNode("<", IdentifierNode("lanes"), IntegerNode(2))}

TripleTests ==
    {BinaryNode(o1, BinaryNode(o2, a, b), c) :
        o1 \in {"and", "or"}, o2 \in {"and", "or"},
        a \in SmallCore, b \in SmallCore, c \in SmallCore}
    \cup {BinaryNode(o1, a, BinaryNode(o2, b, c)) :
        o1 \in {"and", "or"}, o2 \in {"and", "or"},
        a \in SmallCore, b \in SmallCore, c \in SmallCore}

\* (a or b) and (c or d)
QuadTests ==
    {BinaryNode("and", BinaryNode("or", a, b), BinaryNode("or", c, a)) :
        a \in SmallCore, b \in SmallCore, c \in SmallCore}

\* !(a && b), not (a || b), ...
SymbolTests ==
    {UnaryNode(n, BinaryNode(op, a, b)) :
        n \in {"not", "!"}, op \in {"&&", "||"}, a \in SmallCore, b \in SmallCore}

\* the expressions the long chains of negations are put in front of
ChainBases ==
    SmallCore
    \cup {BoolNode(TRUE),
          BinaryNode("and", BinaryNode("==", IdentifierNode("highway"), StringNode("a")),
                     IdentifierNode("oneway")),
          BinaryNode("not in", IdentifierNode("access"),
                     ArrayNode(<<StringNode("a"), StringNode("no")>>)),
          BinaryNode("in", UnaryNode("not", IdentifierNode("oneway")),
                     ArrayNode(<<BoolNode(TRUE), IdentifierNode("oneway")>>)),
          MatchesNode(IdentifierNode("highway"), StringNode("a.*"))}

\* not not not E, not not not not E, ...
LongChains == {NotChain(k, t) : k \in 3..MaxChain, t \in ChainBases}

\* the filter of fetchStep (run.go, queryExpr)
queryExpr ==
    BinaryNode("and",
      BinaryNode("and",
        BinaryNode("and",
          FunctionNode("is_tag", <<IdentifierNode("highway")>>),
          BinaryNode("not in", IdentifierNode("highway"),
            ArrayNode(<<StringNode("proposed"), StringNode("corridor"),
                        StringNode("construction"), StringNode("footway"),
                        StringNode("steps"), StringNode("busway"),
                        StringNode("elevator"), StringNode("services")>>))),
        BinaryNode("not in", IdentifierNode("service"),
          ArrayNode(<<StringNode("driveway"), StringNode("parking_aisle")>>))),
      BinaryNode("!=", IdentifierNode("area"), StringNode("yes")))

\* the examples of the specification
Examples ==
    {BinaryNode("in", IdentifierNode("highway"),
                ArrayNode(<<StringNode("primary"), StringNode("secondary")>>)),
     BinaryNode("not in", IdentifierNode("access"),
                ArrayNode(<<StringNode("private"), StringNode("no")>>)),
     BinaryNode("!=", IdentifierNode("surface"), StringNode("cobblestone")),
     BinaryNode("in", IdentifierNode("sport"), ArrayNode(<<>>)),
     BinaryNode("not in", IdentifierNode("highway"),
                ArrayNode(<<StringNode("a"), StringNode("no"), StringNode("b")>>)),
     queryExpr}

Filters ==
    Tests \cup NegatedTests \cup PairTests \cup NegatedPairs \cup TripleTests
        \cup QuadTests \cup SymbolTests \cup LongChains \cup Examples

\* geo.Circle: Radius in thousandths of a metre, Origin.Lat and Origin.Lon
\* in radians held as multiples of pi/180000
Regions ==
    { [Radius |-> 111111, Lat |-> 51500, Lon |-> -120],
      [Radius |-> 5000, Lat |-> -33860, Lon |-> 151209] }

-----------------------------------------------------------------------------
(* buildQuery / buildCriteria, statement by statement *)

Init ==
    /\ pairs = operatorPairsInitialised
    /\ ranged = {}
    /\ log = <<>>
    /\ filter \in Filters \cup {ParseFailure}
    /\ region \in Regions
    /\ pc = "start"
    /\ tree = EmptyHeap
    /\ parsed = EmptyHeap
    /\ qb = NewQueryBuilder
    /\ crits = <<>>
    /\ cerr = ""
    /\ query = ""
    /\ qerr = ""

\* tree, err := parser.Parse(filter)
ParseFilter ==
    /\ pc = "start"
    /\ IF filter = ParseFailure
       THEN /\ cerr' = "syntax error"
            /\ pc' = "criteria"
            /\ UNCHANGED <<tree, parsed>>
       ELSE /\ tree' = Parse(filter)
            /\ parsed' = Parse(filter)
            /\ pc' = "parsed"
            /\ UNCHANGED cerr
    /\ UNCHANGED <<filter, region, qb, crits, query, qerr,
                   pairs, ranged, log>>

\* ast.Walk(&tree.Node, &expandInArray{})
ExpandInArray ==
    /\ pc = "parsed"
    /\ tree' = WalkInArray(tree, RootSlot)
    /\ pc' = "inArray"
    /\ UNCHANGED <<filter, region, parsed, qb, crits, cerr, query, qerr,
                   pairs, ranged, log>>

\* ast.Walk(&tree.Node, &expandInRange{})
ExpandInRange ==
    /\ pc = "inArray"
    /\ tree' = WalkInRange(tree, RootSlot)
    /\ pc' = "inRange"
    /\ UNCHANGED <<filter, region, parsed, qb, crits, cerr, query, qerr,
                   pairs, ranged, log>>

\* ast.Walk(&tree.Node, &distributeAndFoldNot{})
DistributeAndFoldNot ==
    /\ pc = "inRange"
    /\ tree' = WalkFoldNot(tree, RootSlot)
    /\ pc' = "foldNot"
    /\ UNCHANGED <<filter, region, parsed, qb, crits, cerr, query, qerr,
                   pairs, ranged, log>>

\* toDNF(&tree.Node)
ToDNF ==
    /\ pc = "foldNot"
    /\ tree' = toDNF(tree)
    /\ pc' = "dnf"
    /\ UNCHANGED <<filter, region, parsed, qb, crits, cerr, query, qerr,
                   pairs, ranged, log>>

\* qb := queryBuilder{}; ast.Walk(&tree.Node, &qb)
Generate ==
    /\ pc = "dnf"
    /\ qb' = WalkQuery(NewQueryBuilder, tree, tree.root)
    /\ pc' = IF qb'.panic THEN "panic" ELSE "generated"
    /\ UNCHANGED <<filter, region, tree, parsed, crits, cerr, query, qerr,
                   pairs, ranged, log>>

\* the fragments emitted before the failure returned along with the error
buildCriteriaReturnPartial(Q) ==
    IF Q.err # ""
    THEN [stack |-> Q.stack, crits |-> Q.stack, err |-> Q.err]
    ELSE [stack |-> WrapCriteria(Q.stack), crits |-> WrapCriteria(Q.stack), err |-> ""]

\* if qb.err != nil { return nil, qb.err }, else the wrapping loop and
\* return qb.stack, nil
buildCriteriaReturn(Q) ==
    IF Q.err # ""
    THEN [stack |-> Q.stack, crits |-> <<>>, err |-> Q.err]
    ELSE [stack |-> WrapCriteria(Q.stack), crits |-> WrapCriteria(Q.stack), err |-> ""]

ReturnCriteria ==
    /\ pc = "generated"
    /\ qb' = [qb EXCEPT !.stack = buildCriteriaReturn(qb).stack]
    /\ crits' = buildCriteriaReturn(qb).crits
    /\ cerr' = buildCriteriaReturn(qb).err
    /\ pc' = "criteria"
    /\ UNCHANGED <<filter, region, tree, parsed, query, qerr,
                   pairs, ranged, log>>

\* buildQuery, once buildCriteria returned
buildQueryReturn(reg, cs, err) ==
    IF err # ""
    THEN [query |-> "", err |-> "overpass query error: " \o err]
    ELSE [query |-> QueryText(reg, cs), err |-> ""]

ReturnQuery ==
    /\ pc = "criteria"
    /\ query' = buildQueryReturn(region, crits, cerr).query
    /\ qerr' = buildQueryReturn(region, crits, cerr).err
    /\ pc' = "done"
    /\ UNCHANGED <<filter, region, tree, parsed, qb, crits, cerr,
                   pairs, ranged, log>>

Next ==
    \/ ParseFilter
    \/ ExpandInArray
    \/ ExpandInRange
    \/ DistributeAndFoldNot
    \/ ToDNF
    \/ Generate
    \/ ReturnCriteria
    \/ ReturnQuery

Spec == Init /\ [][Next]_vars

\* buildCriteria as a function of the parsed filter
buildCriteria(t) ==
    LET H == toDNF(WalkFoldNot(WalkInRange(WalkInArray(Parse(t), RootSlot),
                                           RootSlot), RootSlot))
    IN  buildCriteriaReturn(WalkQuery(NewQueryBuilder, H, H.root))

-----------------------------------------------------------------------------
(* The code generator on its own: queryBuilder walks a tree that did not go  *)
(* through the rewrite passes                                                *)

GeneratorTrees ==
    EqTests \cup CallTests \cup PlainTests
        \cup {UnaryNode(n, t) : n \in {"not", "!"},
                                t \in EqTests \cup CallTests \cup PlainTests}
        \cup {BinaryNode(op, a, b) : op \in {"and", "or"}, a \in EqTests, b \in PlainTests}

GenInit ==
    /\ pairs = operatorPairsInitialised
    /\ ranged = {}
    /\ log = <<>>
    /\ filter \in GeneratorTrees
    /\ region \in Regions
    /\ pc = "dnf"
    /\ tree = Parse(filter)
    /\ parsed = Parse(filter)
    /\ qb = NewQueryBuilder
    /\ crits = <<>>
    /\ cerr = ""
    /\ query = ""
    /\ qerr = ""

GenNext ==
    \/ Generate
    \/ ReturnCriteria
    \/ ReturnQuery

GenSpec == GenInit /\ [][GenNext]_vars

-----------------------------------------------------------------------------
(* Meaning of an expression: the value the expression engine computes for   *)
(* it under an assignment of values to the tag names                        *)

BoolV(b) == [t |-> "bool", s |-> "", i |-> 0, b |-> b]
StrV(str) == [t |-> "string", s |-> str, i |-> 0, b |-> FALSE]
IntV(i) == [t |-> "int", s |-> "", i |-> i, b |-> FALSE]

TypedIds == StrIds \cup BoolIds \cup IntIds

IdType(x) ==
    IF x \in StrIds THEN "string"
    ELSE IF x \in BoolIds THEN "bool"
    ELSE IF x \in IntIds THEN "int"
    ELSE "other"

Values == {BoolV(TRUE), BoolV(FALSE), StrV("a"), StrV("no"), StrV("zz"),
           IntV(1), IntV(2), IntV(3)}

Envs == {e \in [TypedIds -> Values] : \A x \in TypedIds : e[x].t = IdType(x)}

RECURSIVE TypeOf(_)
TypeOf(t) ==
    LET ty(i) == TypeOf(t.c[i]) IN
    CASE t.k = "Identifier" -> IdType(t.val)
      [] t.k = "Bool" -> "bool"
      [] t.k = "String" -> "string"
      [] t.k = "Integer" -> "int"
      [] t.k = "Unary" /\ t.op \in {"not", "!"} ->
            IF ty(1) = "bool" THEN "bool" ELSE "other"
      [] t.k = "Binary" /\ t.op \in {"and", "&&", "or", "||"} ->
            IF ty(1) = "bool" /\ ty(2) = "bool" THEN "bool" ELSE "other"
      [] t.k = "Binary" /\ t.op \in {"==", "!="} ->
            IF ty(1) # "other" /\ ty(2) # "other" THEN "bool" ELSE "other"
      [] t.k = "Binary" /\ t.op \in {">", ">=", "<", "<="} ->
            IF ty(1) = "int" /\ ty(2) = "int" THEN "bool" ELSE "other"
      [] t.k = "Binary" /\ t.op \in {"in", "not in"} /\ t.c[2].k = "Array" ->
            IF ty(1) # "other"
               /\ \A i \in 1..Len(t.c[2].c) : TypeOf(t.c[2].c[i]) # "other"
            THEN "bool" ELSE "other"
      [] t.k = "Binary" /\ t.op \in {"in", "not in"} /\ t.c[2].k = "Binary"
            /\ t.c[2].op = ".." ->
            IF ty(1) = "int" /\ TypeOf(t.c[2].c[1]) = "int"
               /\ TypeOf(t.c[2].c[2]) = "int"
            THEN "bool" ELSE "other"
      [] OTHER -> "other"

RECURSIVE Eval(_, _)
Eval(t, e) ==
    LET l == Eval(t.c[1], e)
        r == Eval(t.c[2], e)
        member == IF t.c[2].k = "Array"
                  THEN \E i \in 1..Len(t.c[2].c) : Eval(t.c[2].c[i], e) = l
                  ELSE Eval(t.c[2].c[1], e).i <= l.i /\ l.i <= Eval(t.c[2].c[2], e).i
    IN
    CASE t.k = "Identifier" -> e[t.val]
      [] t.k = "Bool" -> BoolV(t.b)
      [] t.k = "String" -> StrV(t.val)
      [] t.k = "Integer" -> IntV(t.num)
      [] t.k = "Unary" -> BoolV(~l.b)
      [] t.k = "Binary" /\ t.op \in {"and", "&&"} -> BoolV(l.b /\ r.b)
      [] t.k = "Binary" /\ t.op \in {"or", "||"} -> BoolV(l.b \/ r.b)
      [] t.k = "Binary" /\ t.op = "==" -> BoolV(l = r)
      [] t.k = "Binary" /\ t.op = "!=" -> BoolV(l # r)
      [] t.k = "Binary" /\ t.op = ">" -> BoolV(l.i > r.i)
      [] t.k = "Binary" /\ t.op = ">=" -> BoolV(l.i >= r.i)
      [] t.k = "Binary" /\ t.op = "<" -> BoolV(l.i < r.i)
      [] t.k = "Binary" /\ t.op = "<=" -> BoolV(l.i <= r.i)
      [] t.k = "Binary" /\ t.op = "in" -> BoolV(member)
      [] t.k = "Binary" /\ t.op = "not in" -> BoolV(~member)

-----------------------------------------------------------------------------
(* Properties *)

\* the statements of a query: for every criterion the proximity clause, the
\* criterion and the terminator
RECURSIVE Statements(_, _)
Statements(clause, cs) ==
    IF cs = <<>> THEN ""
    ELSE clause \o Head(cs) \o ";" \o Statements(clause, Tail(cs))

\* C1: for every filter that compiles without error to the criteria c1..cn,
\* buildQuery returns exactly "[out:json];(" followed, in list order, by one
\* statement way(around:R,LAT,LON) ci ; per criterion, followed by
\* ");out tags geom qt;", with the same proximity clause in every statement.
C1_QueryFormat ==
    (pc = "done" /\ qerr = "") =>
        /\ cerr = ""
        /\ query = "[out:json];("
                    \o Statements("way(around:" \o FormatFloat(region.Radius) \o ","
                                    \o FormatFloat(RadiansToDegrees(region.Lat)) \o ","
                                    \o FormatFloat(RadiansToDegrees(region.Lon)) \o ")",
                                  crits)
                    \o ");out tags geom qt;"
        /\ (region = [Radius |-> 111111, Lat |-> 51500, Lon |-> -120]
                /\ crits = <<"[highway]", "(if:count(highway))">>) =>
             query = "[out:json];(way(around:111.111,51.5,-0.12)[highway];"
                        \o "way(around:111.111,51.5,-0.12)(if:count(highway));"
                        \o ");out tags geom qt;"

\* a query of several statements has been returned
C1_Witness ==
    /\ pc = "done" /\ qerr = ""
    /\ region = [Radius |-> 111111, Lat |-> 51500, Lon |-> -120]
    /\ crits = <<"[highway]", "(if:count(highway))">>

\* C2: when parsing or code generation fails, buildCriteria returns no
\* criteria list and buildQuery returns the empty string together with the
\* error; no query text is returned alongside an error.
C2_NoPartialQuery ==
    /\ (pc \in {"criteria", "done"} /\ (filter = ParseFailure \/ qb.err # "")) =>
            (cerr # "" /\ crits = <<>>)
    /\ (pc = "done" /\ (filter = ParseFailure \/ qb.err # "")) =>
            (qerr # "" /\ query = "")
    /\ (pc = "done" /\ qerr # "") => query = ""

\* generation failed after fragments had already been emitted
C2_Witness == pc = "done" /\ qb.err # "" /\ Len(qb.stack) > 0 /\ qerr # ""

\* C3: the four rewrite passes preserve the meaning of the expression: under
\* every assignment of values to the tag names the tree after toDNF evaluates
\* to the same boolean as the parsed tree.
C3_SemanticsPreserved ==
    (pc = "dnf" /\ TypeOf(filter) = "bool") =>
        \A e \in Envs : Eval(TreeOf(tree), e) = Eval(filter, e)

BeginsWith(str, pre) == Len(str) >= Len(pre) /\ SubSeq(str, 1, Len(pre)) = pre

\* C4: every criterion returned by a successful buildCriteria is non-empty and
\* begins with "[" or with "(if:"; a fragment of neither form is returned as
\* (if:<fragment>), the others are returned as they are.
C4_CriteriaWrapped ==
    [][(pc = "generated" /\ qb.err = "") =>
        /\ cerr' = ""
        /\ Len(crits') = Len(qb.stack)
        /\ \A i \in 1..Len(qb.stack) :
            /\ crits'[i] # ""
            /\ BeginsWith(crits'[i], "[") \/ BeginsWith(crits'[i], "(if:")
            /\ crits'[i] =
                 IF BeginsWith(qb.stack[i], "[") \/ BeginsWith(qb.stack[i], "(if:")
                 THEN qb.stack[i]
                 ELSE "(if:" \o qb.stack[i] \o ")"]_vars

\* criteria of both kinds have been returned: one already bracketed, one
\* wrapped by the final loop
C4_Witness ==
    /\ pc = "criteria" /\ cerr = ""
    /\ \E i \in 1..Len(crits) : BeginsWith(crits[i], "[")
    /\ \E i \in 1..Len(crits) : BeginsWith(crits[i], "(if:")

\* a membership test of a tag name in an array of string literals
IsStringMembership(t, op) ==
    /\ t.k = "Binary" /\ t.op = op
    /\ t.c[1].k = "Identifier" /\ t.c[1].val \in StrIds \cup {"sport"}
    /\ t.c[2].k = "Array"
    /\ \A i \in 1..Len(t.c[2].c) : t.c[2].c[i].k = "String"

ArrayLen(t) == Len(t.c[2].c)
ArrayVal(t, i) == t.c[2].c[i].val

RECURSIVE Conjuncts(_)
Conjuncts(t) ==
    IF t.k = "Binary" /\ t.op \in {"and", "&&"}
    THEN Conjuncts(t.c[1]) \o Conjuncts(t.c[2])
    ELSE <<t>>

\* a root-level tag test: on its own it compiles to one bracketed criterion
IsTagTest(t) ==
    /\ buildCriteria(t).err = ""
    /\ Len(buildCriteria(t).crits) = 1
    /\ BeginsWith(buildCriteria(t).crits[1], "[")

IsTagConjunction(t) ==
    /\ t.k # "ParseFailure"
    /\ Len(Conjuncts(t)) >= 2
    /\ \A i \in 1..Len(Conjuncts(t)) : IsTagTest(Conjuncts(t)[i])

RECURSIVE ConcatFilters(_)
ConcatFilters(ts) ==
    IF ts = <<>> THEN ""
    ELSE buildCriteria(Head(ts)).crits[1] \o ConcatFilters(Tail(ts))

ExampleConjunction ==
    BinaryNode("and",
        BinaryNode("in", IdentifierNode("highway"), ArrayNode(<<StringNode("a")>>)),
        BinaryNode("not in", IdentifierNode("access"), ArrayNode(<<StringNode("no")>>)))

\* C7 as stated: a conjunction of root-level tag tests compiles to exactly one
\* criterion, the concatenation in operand order of the bracketed filters of
\* its conjuncts; the example compiles to [highway=a][access!=no].
C7_Original ==
    /\ (pc = "criteria" /\ IsTagConjunction(filter)) =>
            (cerr = "" /\ crits = <<ConcatFilters(Conjuncts(filter))>>)
    /\ (pc = "criteria" /\ filter = ExampleConjunction) =>
            crits = <<"[highway=a][access!=no]">>

\* C7 (amended): a conjunction of root-level tag tests compiles to exactly one
\* criterion, the concatenation in operand order of the bracketed filters of
\* its conjuncts; the example compiles to [highway="a"][access!="no"] and
\* queryExpr to its twelve bracketed filters.
C7_ConjunctionCriterion ==
    /\ (pc = "criteria" /\ IsTagConjunction(filter)) =>
            (cerr = "" /\ crits = <<ConcatFilters(Conjuncts(filter))>>)
    /\ (pc = "criteria" /\ filter = ExampleConjunction) =>
            crits = <<"[highway=\"a\"][access!=\"no\"]">>
    /\ (pc = "criteria" /\ filter = queryExpr) =>
            crits = <<"[highway][highway!=\"proposed\"][highway!=\"corridor\"]"
                        \o "[highway!=\"construction\"][highway!=\"footway\"]"
                        \o "[highway!=\"steps\"][highway!=\"busway\"]"
                        \o "[highway!=\"elevator\"][highway!=\"services\"]"
                        \o "[service!=\"driveway\"][service!=\"parking_aisle\"]"
                        \o "[area!=\"yes\"]">>

\* a conjunction of three tag tests has been compiled to one criterion
C7_Witness ==
    /\ pc = "criteria" /\ IsTagConjunction(filter)
    /\ Len(Conjuncts(filter)) >= 3
    /\ filter # queryExpr
    /\ Len(crits) = 1

IsEmptyMembership(t, op) ==
    t.k = "Binary" /\ t.op = op /\ t.c[2].k = "Array" /\ Len(t.c[2].c) = 0

\* C8: membership in an empty array never raises an error: x in [] is
\* rewritten to the literal false, x not in [] to the literal true once the
\* negation is folded, and such a filter compiles to exactly one criterion,
\* an evaluated filter on the constant, with a nil error.
C8_EmptyArray ==
    /\ (pc = "inArray" /\ IsEmptyMembership(filter, "in")) =>
            TreeOf(tree) = BoolNode(FALSE)
    /\ (pc = "inArray" /\ IsEmptyMembership(filter, "not in")) =>
            TreeOf(tree) = UnaryNode("not", BoolNode(FALSE))
    /\ (pc \in {"foldNot", "dnf"} /\ IsEmptyMembership(filter, "in")) =>
            TreeOf(tree) = BoolNode(FALSE)
    /\ (pc \in {"foldNot", "dnf"} /\ IsEmptyMembership(filter, "not in")) =>
            TreeOf(tree) = BoolNode(TRUE)
    /\ (pc \in {"criteria", "done"} /\ IsEmptyMembership(filter, "in")) =>
            (cerr = "" /\ crits = <<"(if:\"no\")">>)
    /\ (pc \in {"criteria", "done"} /\ IsEmptyMembership(filter, "not in")) =>
            (cerr = "" /\ crits = <<"(if:\"yes\")">>)
    /\ (pc = "done" /\ (IsEmptyMembership(filter, "in")
                            \/ IsEmptyMembership(filter, "not in"))) => qerr = ""

\* x not in [] has been compiled
C8_Witness ==
    /\ pc = "done" /\ IsEmptyMembership(filter, "not in")
    /\ crits = <<"(if:\"yes\")">> /\ qerr = ""

\* the text of a leaf operand in a sub-expression
LeafText(t) ==
    CASE t.k = "Identifier" ->
            IF t.val = "addr_street" THEN "\"addr_street\"" ELSE t.val
      [] t.k = "String" -> IF t.val = "a\"b" THEN "\"a\\\"b\"" ELSE "\"" \o t.val \o "\""
      [] t.k = "Integer" -> IF t.num = 2 THEN "2" ELSE "7"
      [] t.k = "Bool" -> IF t.b THEN "\"yes\"" ELSE "\"no\""

IsLeaf(t) == t.k \in {"Identifier", "String", "Integer", "Bool"}

IsLeafEquality(t) ==
    t.k = "Binary" /\ t.op \in {"==", "!="} /\ IsLeaf(t.c[1]) /\ IsLeaf(t.c[2])

\* the tag filter of the equality test t generated with pending flag not
EqualityFilter(t, not) ==
    LET swap == t.c[2].k = "Identifier"
        a == IF swap THEN LeafText(t.c[2]) ELSE LeafText(t.c[1])
        v == IF swap THEN LeafText(t.c[1]) ELSE LeafText(t.c[2])
        negated == (t.op = "!=") # not
    IN  "[" \o a \o (IF negated THEN "!=" ELSE "=") \o v \o "]"

EqualityValue(t) ==
    IF t.c[2].k = "Identifier" THEN LeafText(t.c[1]) ELSE LeafText(t.c[2])

\* C9 as stated: at root a != v is emitted as [a!=v] and a == v as [a=v],
\* whatever the value v: != flips the pending negation flag and is otherwise
\* treated as ==, so a root != whose pending flag is true is emitted
\* un-negated; when the right operand is an identifier the operands are
\* swapped.
C9_Original ==
    /\ (pc = "criteria" /\ IsLeafEquality(filter)) =>
            (cerr = "" /\ crits = <<EqualityFilter(filter, FALSE)>>)
    /\ (pc = "criteria" /\ filter.k = "Unary" /\ filter.op \in {"not", "!"}
            /\ IsLeafEquality(filter.c[1])) =>
            (cerr = "" /\ crits = <<EqualityFilter(filter.c[1], TRUE)>>)

\* the regex test the comparison with the empty string is emitted as
EmptyValueFilter(t, not) ==
    LET a == IF t.c[2].k = "Identifier" THEN LeafText(t.c[2]) ELSE LeafText(t.c[1])
        negated == (t.op = "!=") # not
    IN  "[" \o a \o (IF negated THEN "!~" ELSE "~") \o "\"^$\"]"

\* C9 (amended): at root a != v is emitted as [a!=v] and a == v as [a=v],
\* a and v written as the generator writes operands (a string literal in
\* double quotes), provided v is not the empty string: != flips the pending
\* negation flag and is otherwise treated as ==, so a root != whose pending
\* flag is true is emitted un-negated; when the right operand is an
\* identifier the operands are swapped.  The comparison with the empty string
\* is emitted as the regex test [a~"^$"], negated [a!~"^$"].
C9_RootEquality ==
    /\ (pc = "criteria" /\ IsLeafEquality(filter)) =>
            /\ cerr = ""
            /\ crits = IF EqualityValue(filter) # "\"\""
                       THEN <<EqualityFilter(filter, FALSE)>>
                       ELSE <<EmptyValueFilter(filter, FALSE)>>
    /\ (pc = "criteria" /\ filter.k = "Unary" /\ filter.op \in {"not", "!"}
            /\ IsLeafEquality(filter.c[1])) =>
            /\ cerr = ""
            /\ crits = IF EqualityValue(filter.c[1]) # "\"\""
                       THEN <<EqualityFilter(filter.c[1], TRUE)>>
                       ELSE <<EmptyValueFilter(filter.c[1], TRUE)>>

\* a root != generated with a pending flag that is true, its right operand
\* an identifier
C9_Witness ==
    /\ pc = "criteria"
    /\ filter = UnaryNode("not", BinaryNode("!=", StringNode("a"),
                                            IdentifierNode("highway")))
    /\ crits = <<"[highway=\"a\"]">>

IsTagCall(t) ==
    t.k = "Function" /\ t.val = "is_tag" /\ Len(t.c) = 1 /\ t.c[1].k = "Identifier"

EndsWith(str, suf) ==
    Len(str) >= Len(suf) /\ SubSeq(str, Len(str) - Len(suf) + 1, Len(str)) = suf

\* C10: a root-level call is_tag(x) with exactly one argument compiles to the
\* presence filter [x], and to [!x] when its pending negation flag is true;
\* any other call (another name, another arity, a nested position) is emitted
\* in call syntax name(...).
C10_TagPresence ==
    /\ (pc = "criteria" /\ IsTagCall(filter)) =>
            (cerr = "" /\ crits = <<"[" \o LeafText(filter.c[1]) \o "]">>)
    /\ (pc = "criteria" /\ filter.k = "Unary" /\ IsTagCall(filter.c[1])) =>
            (cerr = "" /\ crits = <<"[!" \o LeafText(filter.c[1].c[1]) \o "]">>)
    /\ (pc = "criteria" /\ filter.k = "Function" /\ ~IsTagCall(filter)
            /\ \A i \in 1..Len(filter.c) : IsLeaf(filter.c[i])) =>
            /\ cerr = ""
            /\ Len(crits) = 1
            /\ BeginsWith(crits[1], "(if:" \o filter.val \o "(")
            /\ EndsWith(crits[1], "))")
            /\ Len(filter.c) = 0 => crits = <<"(if:" \o filter.val \o "())">>
            /\ Len(filter.c) = 1 =>
                    crits = <<"(if:" \o filter.val \o "("
                                \o LeafText(filter.c[1]) \o "))">>
    /\ (pc = "criteria" /\ filter.k = "Unary" /\ filter.c[1].k = "Function"
            /\ ~IsTagCall(filter.c[1])
            /\ \A i \in 1..Len(filter.c[1].c) : IsLeaf(filter.c[1].c[i])) =>
            /\ cerr = ""
            /\ Len(crits) = 1
            /\ BeginsWith(crits[1], "(if:!" \o filter.c[1].val \o "(")
            /\ EndsWith(crits[1], "))")
    /\ (pc = "criteria"
            /\ filter = BinaryNode("==", FunctionNode("is_tag",
                                            <<IdentifierNode("highway")>>),
                                   BoolNode(TRUE))) =>
            crits = <<"(if:is_tag(highway)==\"yes\")">>

\* a negated presence test has been compiled
C10_Witness ==
    /\ pc = "criteria"
    /\ filter = UnaryNode("not", FunctionNode("is_tag", <<IdentifierNode("access")>>))
    /\ crits = <<"[!access]">>

-----------------------------------------------------------------------------
(* The rewrite passes, pass by pass *)

\* (((L == e1) or (L == e2)) or ...) or (L == en)
RECURSIVE EqualityDisjunction(_, _, _)
EqualityDisjunction(L, es, n) ==
    IF n = 1 THEN BinaryNode("==", L, es[1])
    ELSE BinaryNode("or", EqualityDisjunction(L, es, n - 1),
                    BinaryNode("==", L, es[n]))

IsArrayMembership(t) ==
    t.k = "Binary" /\ t.op \in {"in", "not in"} /\ t.c[2].k = "Array"

\* the tree in which every membership test in an array literal, innermost
\* first, is replaced by the disjunction of equalities (false for the empty
\* array), under one not when the operator was not in
RECURSIVE InArrayExpansion(_)
InArrayExpansion(t) ==
    LET t1 == [t EXCEPT !.c = [i \in 1..Len(t.c) |-> InArrayExpansion(t.c[i])]]
        d == IF Len(t1.c[2].c) = 0 THEN BoolNode(FALSE)
             ELSE EqualityDisjunction(t1.c[1], t1.c[2].c, Len(t1.c[2].c))
    IN  IF ~IsArrayMembership(t1) THEN t1
        ELSE IF t1.op = "not in" THEN UnaryNode("not", d) ELSE d

\* C11: expandInArray replaces every in / not in node whose right operand is
\* an array literal e1..eN, N >= 1, by the left-associated disjunction
\* (((L==e1) or (L==e2)) or ...) or (L==eN) in array order, under one unary
\* not exactly when the operator was not in, and the tree after the pass has
\* the value of the parsed tree under every assignment.
C11_InArrayExpansion ==
    /\ pc = "inArray" => TreeOf(tree) = InArrayExpansion(filter)
    /\ (pc = "inArray" /\ TypeOf(filter) = "bool") =>
            \A e \in Envs : Eval(TreeOf(tree), e) = Eval(filter, e)

\* a not in over three elements has been expanded
C11_Witness ==
    /\ pc = "inArray"
    /\ filter = BinaryNode("not in", IdentifierNode("highway"),
                    ArrayNode(<<StringNode("a"), StringNode("no"), StringNode("b")>>))
    /\ TreeOf(tree) =
        UnaryNode("not",
            BinaryNode("or",
                BinaryNode("or",
                    BinaryNode("==", IdentifierNode("highway"), StringNode("a")),
                    BinaryNode("==", IdentifierNode("highway"), StringNode("no"))),
                BinaryNode("==", IdentifierNode("highway"), StringNode("b"))))

LiteralKinds == {"Nil", "Integer", "Float", "Bool", "String"}

IsRangeMembership(t) ==
    t.k = "Binary" /\ t.op \in {"in", "not in"}
        /\ t.c[2].k = "Binary" /\ t.c[2].op = ".."

\* the tree in which every membership test in a range lo..hi, innermost
\* first, is replaced by L == lo when lo and hi are literals of one kind and
\* one value and by (L >= lo) and (L <= hi) otherwise, under one not when the
\* operator was not in
RECURSIVE InRangeExpansion(_)
InRangeExpansion(t) ==
    LET t1 == [t EXCEPT !.c = [i \in 1..Len(t.c) |-> InRangeExpansion(t.c[i])]]
        L == t1.c[1]
        lo == t1.c[2].c[1]
        hi == t1.c[2].c[2]
        d == IF lo.k \in LiteralKinds /\ hi.k \in LiteralKinds /\ lo = hi
             THEN BinaryNode("==", L, lo)
             ELSE BinaryNode("and", BinaryNode(">=", L, lo), BinaryNode("<=", L, hi))
    IN  IF ~IsRangeMembership(t1) THEN t1
        ELSE IF t1.op = "not in" THEN UnaryNode("not", d) ELSE d

\* C12: expandInRange replaces every in / not in node whose right operand is
\* a range lo..hi by L == lo when lo and hi are literals of equal value, and
\* otherwise (different values, different literal kinds, a bound that is not
\* a literal) by (L >= lo) and (L <= hi); the result is under one unary not
\* exactly when the operator was not in.
C12_InRangeExpansion ==
    [][pc = "inArray" => TreeOf(tree') = InRangeExpansion(TreeOf(tree))]_vars

\* a not in over a range whose bounds are an integer and a float of the same
\* number has been expanded to the two comparisons
C12_Witness ==
    /\ pc = "inRange"
    /\ filter = BinaryNode("not in", IdentifierNode("lanes"),
                    BinaryNode("..", IntegerNode(2), FloatNode(2000)))
    /\ TreeOf(tree) =
        UnaryNode("not",
            BinaryNode("and",
                BinaryNode(">=", IdentifierNode("lanes"), IntegerNode(2)),
                BinaryNode("<=", IdentifierNode("lanes"), FloatNode(2000))))

\* the nodes reachable from the root
ReachStep(H, S) ==
    S \cup UNION {{H.n[p].kids[i] : i \in 1..Len(H.n[p].kids)} : p \in S}

RECURSIVE ReachClosure(_, _)
ReachClosure(H, S) ==
    IF ReachStep(H, S) = S THEN S ELSE ReachClosure(H, ReachStep(H, S))

Reachable(H) == ReachClosure(H, {H.root})

\* the slots of the tree: the root slot and the child slots of its nodes
Slots(H) ==
    {RootSlot} \cup UNION {{<<p, i>> : i \in 1..Len(H.n[p].kids)} : p \in Reachable(H)}

\* the slots that hold the pointer id
Owners(H, id) == {s \in Slots(H) : Deref(H, s) = id}

RECURSIVE HasNegation(_)
HasNegation(t) ==
    \/ (t.k = "Unary" /\ t.op \in {"not", "!"})
    \/ \E i \in 1..Len(t.c) : HasNegation(t.c[i])

\* a subtree that holds a negation is referenced from two slots
SharedNegation(H) ==
    \E id \in Reachable(H) :
        Cardinality(Owners(H, id)) > 1 /\ HasNegation(TreeAt(H, id))

LogicalOps == {"and", "&&", "or", "||"}

\* the registered dual of an operator
Dual(op) ==
    CASE op = "and" -> "or"   [] op = "or" -> "and"
      [] op = "&&"  -> "||"   [] op = "||" -> "&&"
      [] op = "=="  -> "!="   [] op = "!=" -> "=="
      [] op = ">="  -> "<"    [] op = "<"  -> ">="
      [] op = ">"   -> "<="   [] op = "<=" -> ">"
      [] op = "in"  -> "not in" [] op = "not in" -> "in"

HasDual(op) ==
    op \in LogicalOps \cup {"==", "!=", ">=", "<", ">", "<=", "in", "not in"}

\* the negation-normal form: De Morgan over and / or, the dual operator for
\* a negated comparison or membership, double negations removed, a negated
\* boolean literal folded; every other node keeps its place
RECURSIVE NegationNormalForm(_)
NegationNormalForm(t) ==
    LET x == t.c[1]
        below == [t EXCEPT !.c = [i \in 1..Len(t.c) |-> NegationNormalForm(t.c[i])]]
    IN  IF ~(t.k = "Unary" /\ t.op \in {"not", "!"}) THEN below
        ELSE IF x.k = "Binary" /\ HasDual(x.op) /\ x.op \in LogicalOps
        THEN BinaryNode(Dual(x.op), NegationNormalForm(UnaryNode(t.op, x.c[1])),
                        NegationNormalForm(UnaryNode(t.op, x.c[2])))
        ELSE IF x.k = "Binary" /\ HasDual(x.op)
        THEN BinaryNode(Dual(x.op), NegationNormalForm(x.c[1]),
                        NegationNormalForm(x.c[2]))
        ELSE IF x.k = "Unary" /\ x.op \in {"not", "!"}
        THEN NegationNormalForm(x.c[1])
        ELSE IF x.k = "Bool" THEN BoolNode(~x.b)
        ELSE below

\* Enter on the slot s of a negated binary node with a registered dual: the
\* slot holds the binary node itself, its operator is the dual, its operands
\* are two new negations of the old operands for and / or and the old
\* operands otherwise, and no other node changes
EnterRule(H, s) ==
    LET un == Deref(H, s)
        bn == H.n[un].kids[1]
        H1 == DistributeAndFoldNotEnter(H, s)
    IN  (asUnaryNot(H, un) /\ H.n[bn].k = "Binary" /\ HasDual(H.n[bn].op)) =>
            /\ Deref(H1, s) = bn
            /\ H1.n[bn].op = Dual(H.n[bn].op)
            /\ IF H.n[bn].op \in LogicalOps
               THEN /\ Len(H1.n) = Len(H.n) + 2
                    /\ \A j \in 1..2 :
                        /\ H1.n[bn].kids[j] > Len(H.n)
                        /\ H1.n[H1.n[bn].kids[j]]
                                = UnaryRec(H.n[un].op, H.n[bn].kids[j])
               ELSE /\ Len(H1.n) = Len(H.n)
                    /\ H1.n[bn].kids = H.n[bn].kids
            /\ \A id \in 1..Len(H.n) :
                    (id # bn /\ id # s[1]) => H1.n[id] = H.n[id]

\* C13: distributeAndFoldNot rewrites not (A and B) to (not A) or (not B) and
\* not (A or B) to (not A) and (not B), likewise for && and ||, and goes on
\* normalizing the two new negations; a negated comparison or membership
\* operator with a registered dual is replaced by the same node with the dual
\* operator, its operands left in place.  Every Enter on a slot of the tree
\* handed to the pass follows the rule, and the tree after the pass is the
\* negation-normal form of the tree before it whenever no subtree holding a
\* negation is referenced from two slots.
C13_DistributeNot ==
    [][pc = "inRange" =>
        /\ \A s \in Slots(tree) : EnterRule(tree, s)
        /\ ~SharedNegation(tree) =>
                TreeOf(tree') = NegationNormalForm(TreeOf(tree))]_vars

\* not (access != 'no' and not is_tag(access)) has been normalized: the
\* connective and the comparison are replaced by their duals, the double
\* negation is gone
C13_Witness ==
    /\ pc = "foldNot"
    /\ filter = UnaryNode("not",
                    BinaryNode("and",
                        BinaryNode("!=", IdentifierNode("access"), StringNode("no")),
                        UnaryNode("not", FunctionNode("is_tag",
                                            <<IdentifierNode("access")>>))))
    /\ TreeOf(tree) =
            BinaryNode("or",
                BinaryNode("==", IdentifierNode("access"), StringNode("no")),
                FunctionNode("is_tag", <<IdentifierNode("access")>>))

\* the number of negations in front of an expression, and the expression
RECURSIVE ChainLength(_)
ChainLength(t) ==
    IF t.k = "Unary" /\ t.op \in {"not", "!"} THEN 1 + ChainLength(t.c[1]) ELSE 0

RECURSIVE ChainBase(_)
ChainBase(t) ==
    IF t.k = "Unary" /\ t.op \in {"not", "!"} THEN ChainBase(t.c[1]) ELSE t

\* the innermost negation of the chain
RECURSIVE ChainLast(_)
ChainLast(t) == IF ChainLength(t) <= 1 THEN t ELSE ChainLast(t.c[1])

\* what the chain reduces to: E for an even number of negations, not E for
\* an odd one (the negation written as the innermost one of the chain is,
\* not or !)
ChainReduct(t) ==
    IF ChainLength(t) % 2 = 0 THEN ChainBase(t) ELSE ChainLast(t)

\* the tree the first three passes make of the expression t
Normalized(t) ==
    TreeOf(WalkFoldNot(WalkInRange(WalkInArray(Parse(t), RootSlot), RootSlot),
                       RootSlot))

\* C14: a chain of 2k negations over E, k >= 1, normalizes to the
\* negation-normal form of E and a chain of 2k+1 negations to that of not E:
\* the tree after distributeAndFoldNot is the one the pass gives for E (for
\* not E) alone, and it is the negation-normal form wherever no subtree
\* holding a negation is shared.
C14_NegationChains ==
    (pc = "foldNot" /\ ChainLength(filter) >= 2) =>
        /\ TreeOf(tree) = Normalized(ChainReduct(filter))
        /\ ~SharedNegation(WalkInRange(WalkInArray(parsed, RootSlot), RootSlot)) =>
                TreeOf(tree) = NegationNormalForm(
                                InRangeExpansion(InArrayExpansion(ChainReduct(filter))))

\* five negations over (highway == 'a' and oneway) have been normalized to
\* highway != 'a' or not oneway
C14_Witness ==
    /\ pc = "foldNot"
    /\ filter = NotChain(5, BinaryNode("and",
                    BinaryNode("==", IdentifierNode("highway"), StringNode("a")),
                    IdentifierNode("oneway")))
    /\ TreeOf(tree) =
            BinaryNode("or",
                BinaryNode("!=", IdentifierNode("highway"), StringNode("a")),
                UnaryNode("not", IdentifierNode("oneway")))

IsLogical(t) == t.k = "Binary" /\ t.op \in LogicalOps
IsConjunction(t) == t.k = "Binary" /\ t.op \in {"and", "&&"}
IsDisjunction(t) == t.k = "Binary" /\ t.op \in {"or", "||"}

\* no conjunction reachable from t through and / or nodes only has a
\* disjunction as an operand
RECURSIVE InDNF(_)
InDNF(t) ==
    IsLogical(t) =>
        /\ IsConjunction(t) => (~IsDisjunction(t.c[1]) /\ ~IsDisjunction(t.c[2]))
        /\ InDNF(t.c[1])
        /\ InDNF(t.c[2])

\* C15: when toDNF returns because a round applied no rewrite, the outermost
\* chain of logical connectives is in disjunctive normal form: no conjunction
\* reachable from the root through and / or nodes only has a disjunction as
\* its left or right operand.
C15_DisjunctiveNormalForm ==
    [][(pc = "foldNot" /\ ~ToDNFRounds(tree, DnfLimit, 0).capped) =>
            InDNF(TreeOf(tree'))]_vars

\* (highway == 'a' or is_tag(access)) and (oneway or highway == 'a') has been
\* brought to normal form by two rounds of rewriting and a confirming one
C15_Witness ==
    /\ pc = "dnf"
    /\ filter = BinaryNode("and",
                    BinaryNode("or",
                        BinaryNode("==", IdentifierNode("highway"), StringNode("a")),
                        FunctionNode("is_tag", <<IdentifierNode("access")>>)),
                    BinaryNode("or",
                        IdentifierNode("oneway"),
                        BinaryNode("==", IdentifierNode("highway"), StringNode("a"))))
    /\ ToDNFRounds(parsed, DnfLimit, 0).rounds = 3
    /\ InDNF(TreeOf(tree))
    /\ ~InDNF(filter)

\* largest start value tried for the loop counter of toDNF besides DnfLimit
MaxCap == 3

\* C16: toDNF terminates on every input and performs at most as many
\* traversal rounds as the value its loop counter starts from (1000 in
\* toDNF), returning earlier as soon as one round applies no rewrite.
C16_RoundCap ==
    pc = "foldNot" =>
        /\ ToDNFRounds(tree, DnfLimit, 0).rounds <= DnfLimit
        /\ \A cap \in 1..MaxCap : ToDNFRounds(tree, cap, 0).rounds <= cap

\* C17: toDNF on a tree whose outermost and / or chain is already in
\* disjunctive normal form performs exactly one traversal round, applies no
\* rewrite and leaves the tree unchanged; in particular a second run of toDNF
\* on the result of a run that stopped before the cap changes nothing.
C17_DnfIdempotent ==
    /\ (pc = "foldNot" /\ InDNF(TreeOf(tree))) =>
            /\ ToDNFRounds(tree, DnfLimit, 0).rounds = 1
            /\ ~ToDNFRounds(tree, DnfLimit, 0).capped
            /\ ToDNFRounds(tree, DnfLimit, 0).h = tree
    /\ pc = "dnf" =>
            /\ ToDNFRounds(tree, DnfLimit, 0).rounds = 1
            /\ toDNF(tree) = tree

\* toDNF has rewritten (highway == 'a' or oneway) and (is_tag(access) or
\* highway == 'a'); a second run on the result stops after one round
C17_Witness ==
    /\ pc = "dnf"
    /\ filter = BinaryNode("and",
                    BinaryNode("or",
                        BinaryNode("==", IdentifierNode("highway"), StringNode("a")),
                        IdentifierNode("oneway")),
                    BinaryNode("or",
                        FunctionNode("is_tag", <<IdentifierNode("access")>>),
                        BinaryNode("==", IdentifierNode("highway"), StringNode("a"))))
    /\ TreeOf(tree) # filter
    /\ ToDNFRounds(tree, DnfLimit, 0).rounds = 1
    /\ toDNF(tree) = tree

IsPlainMembership(t) ==
    /\ t.k = "Binary" /\ t.op \in {"in", "not in"}
    /\ t.c[2].k # "Array"
    /\ ~(t.c[2].k = "Binary" /\ t.c[2].op = "..")

\* C18: a membership test whose right operand is neither an array literal nor
\* a range literal is left untouched by both expander passes and is then
\* rejected by the code generator: buildCriteria returns an error and no
\* criteria.
C18_MembershipRejected ==
    IsPlainMembership(filter) =>
        /\ pc \in {"inArray", "inRange"} => TreeOf(tree) = filter
        /\ pc \in {"criteria", "done"} => (cerr # "" /\ crits = <<>>)

\* the expander passes on their own: the membership test comes out of both
\* of them as it went in
C18_Untouched ==
    (IsPlainMembership(filter) /\ pc \in {"inArray", "inRange"}) =>
        (TreeOf(tree) = filter /\ tree = parsed)

\* highway in access compiles without an error
C18_Accepted ==
    /\ pc = "criteria"
    /\ filter = BinaryNode("in", IdentifierNode("highway"), IdentifierNode("access"))
    /\ cerr = ""
    /\ crits = <<"[highwayinaccess]">>

InvertibleKinds == {"Integer", "Float", "String"}

IsNegation(t) == t.k = "Unary" /\ t.op \in {"not", "!"}

IsNegatedLiteral(t) == IsNegation(t) /\ t.c[1].k \in InvertibleKinds

\* the kinds of the negated integer, float and string literals anywhere in t
RECURSIVE NegatedLiteralKinds(_)
NegatedLiteralKinds(t) ==
    (IF IsNegatedLiteral(t) THEN {t.c[1].k} ELSE {})
        \cup UNION {NegatedLiteralKinds(t.c[i]) : i \in 1..Len(t.c)}

\* the kinds of those on the outermost chain of t: reached from the root
\* through negations, conjunctions and disjunctions only
RECURSIVE ChainNegatedKinds(_)
ChainNegatedKinds(t) ==
    IF IsNegatedLiteral(t) THEN {t.c[1].k}
    ELSE IF IsNegation(t) \/ IsLogical(t)
    THEN UNION {ChainNegatedKinds(t.c[i]) : i \in 1..Len(t.c)}
    ELSE {}

SupportedKinds ==
    {"Identifier", "Integer", "Float", "Bool", "String", "Unary", "Binary",
     "Matches", "Function", "Conditional"}

\* some node of t is of a kind the generator has no case for
RECURSIVE HasUnsupported(_)
HasUnsupported(t) ==
    t.k \notin SupportedKinds \/ \E i \in 1..Len(t.c) : HasUnsupported(t.c[i])

InvertedError(k) == "inverted " \o nodeName(k) \o " not supported"

UnsupportedError(k) == nodeName(k) \o " not supported"

\* the errors of the offending nodes of t in post-order. d0: t is entered at
\* depth 0; neg: t is the operand of a negation on the outermost chain
RECURSIVE PostOrderErrors(_, _, _), PostOrderKidErrors(_, _, _)
PostOrderErrors(t, d0, neg) ==
    PostOrderKidErrors(t, d0, 1)
        \o (IF neg /\ t.k \in InvertibleKinds THEN <<InvertedError(t.k)>>
            ELSE IF t.k \notin SupportedKinds THEN <<UnsupportedError(t.k)>>
            ELSE <<>>)
PostOrderKidErrors(t, d0, i) ==
    IF i > Len(t.c) THEN <<>>
    ELSE PostOrderErrors(t.c[i], d0 /\ (IsNegation(t) \/ IsLogical(t)),
                         d0 /\ IsNegation(t))
            \o PostOrderKidErrors(t, d0, i + 1)

\* the nodes of a heap
NodeIds(H) == 1..Len(H.n)

\* C20: once the generator has set its error, every later Exit leaves the
\* fragment stack and the error as they are, so the error buildCriteria
\* returns is the one of the first offending node in post-order; a node of a
\* kind outside the supported set (array outside a membership test, nil,
\* member access) sets the error when none is set yet.
C20_FirstErrorWins ==
    /\ (pc = "generated" /\ qb.err # "") =>
            \A id \in NodeIds(tree) :
                /\ QueryBuilderExit(qb, tree, id) = qb
                /\ QueryBuilderEnter(qb, tree, id).stack = qb.stack
                /\ QueryBuilderEnter(qb, tree, id).err = qb.err
    /\ pc = "generated" =>
            \A id \in NodeIds(tree) :
                tree.n[id].k \notin SupportedKinds =>
                    QueryBuilderExit(NewQueryBuilder, tree, id).err
                        = UnsupportedError(tree.n[id].k)
    /\ (pc = "criteria" /\ filter # ParseFailure) =>
            LET errs == PostOrderErrors(TreeOf(tree), TRUE, FALSE)
            IN  IF errs = <<>> THEN cerr = ""
                ELSE cerr = Head(errs) /\ crits = <<>>

\* oneway or count(nil, []): the first criterion is on the stack when nil sets
\* the error; the array after it changes nothing
C20_Witness ==
    /\ pc = "criteria"
    /\ filter = BinaryNode("or", IdentifierNode("oneway"),
                    FunctionNode("count", <<NilNode, ArrayNode(<<>>)>>))
    /\ PostOrderErrors(TreeOf(tree), TRUE, FALSE)
            = <<"nil not supported", "array not supported">>
    /\ qb.stack = <<"[oneway=\"yes\"]">>
    /\ cerr = "nil not supported"
    /\ crits = <<>>

-----------------------------------------------------------------------------
(* The process: package initialisation, then calls of buildQuery one after  *)
(* the other                                                                 *)

CallFilters ==
    {ParseFailure,
     FunctionNode("is_tag", <<IdentifierNode("highway")>>),
     BinaryNode("not in", IdentifierNode("highway"),
                ArrayNode(<<StringNode("a"), StringNode("no")>>)),
     UnaryNode("not", BinaryNode("and", IdentifierNode("oneway"),
                BinaryNode(">", IdentifierNode("lanes"), IntegerNode(2)))),
     UnaryNode("not", IntegerNode(7))}

CallsInit ==
    /\ pairs = operatorPairsLiteral
    /\ ranged = {}
    /\ log = <<>>
    /\ pc = "init"
    /\ filter = ParseFailure
    /\ region = [Radius |-> 5000, Lat |-> -33860, Lon |-> 151209]
    /\ tree = EmptyHeap
    /\ parsed = EmptyHeap
    /\ qb = NewQueryBuilder
    /\ crits = <<>>
    /\ cerr = ""
    /\ query = ""
    /\ qerr = ""

\* for k, v := range operatorPairs { operatorPairs[v] = k }: one iteration.
\* The loop produces the entries in any order; an entry stored during the
\* loop may be produced later on, or skipped
InitRange ==
    /\ pc = "init"
    /\ \E k \in DOMAIN pairs \ ranged :
            /\ pairs' = initAssign(pairs, k)
            /\ ranged' = ranged \cup {k}
    /\ UNCHANGED <<filter, region, pc, tree, parsed, qb, crits, cerr, query, qerr, log>>

\* the end of the loop: every entry of the map literal has been produced
InitReturn ==
    /\ pc = "init"
    /\ DOMAIN operatorPairsLiteral \subseteq ranged
    /\ pc' = "idle"
    /\ ranged' = {}
    /\ UNCHANGED <<filter, region, tree, parsed, qb, crits, cerr, query, qerr, pairs, log>>

\* a call of buildQuery(region, filter): the tree, the queryBuilder and the
\* results are locals of the call
CallBuildQuery ==
    /\ pc = "idle"
    /\ Len(log) < MaxCalls
    /\ filter' \in CallFilters
    /\ region' \in Regions
    /\ pc' = "start"
    /\ tree' = EmptyHeap
    /\ parsed' = EmptyHeap
    /\ qb' = NewQueryBuilder
    /\ crits' = <<>>
    /\ cerr' = ""
    /\ query' = ""
    /\ qerr' = ""
    /\ UNCHANGED <<pairs, ranged, log>>

\* query, err := buildQuery(...): the caller has the results
CallReturn ==
    /\ pc = "done"
    /\ log' = Append(log, [region |-> region, filter |-> filter,
                           query |-> query, err |-> qerr])
    /\ pc' = "idle"
    /\ UNCHANGED <<filter, region, tree, parsed, qb, crits, cerr, query, qerr,
                   pairs, ranged>>

CallsNext ==
    \/ InitRange
    \/ InitReturn
    \/ CallBuildQuery
    \/ ParseFilter
    \/ ExpandInArray
    \/ ExpandInRange
    \/ DistributeAndFoldNot
    \/ ToDNF
    \/ Generate
    \/ ReturnCriteria
    \/ ReturnQuery
    \/ CallReturn

CallsSpec == CallsInit /\ [][CallsNext]_vars

\* C21: compilation is deterministic and stateless across calls: the result
\* of buildQuery for a (region, filter) pair is the one every earlier call
\* with that pair returned, whatever calls came in between; operatorPairs is
\* written by init() only, holds the 12 entries of the six pairs in both
\* directions once init() returned, whatever the order of its loop, and no
\* call changes it.
C21_Stateless ==
    /\ [](pc # "init" =>
            /\ pairs = operatorPairsInitialised
            /\ Cardinality(DOMAIN pairs) = 12)
    /\ [](pc = "done" =>
            \A i \in 1..Len(log) :
                (log[i].region = region /\ log[i].filter = filter) =>
                    (log[i].query = query /\ log[i].err = qerr))
    /\ [][pc # "init" => pairs' = pairs]_vars

\* the third call repeats the first one, a different call lies in between,
\* and it returns the same query
C21_Witness ==
    /\ pc = "done"
    /\ Len(log) = 2
    /\ log[1].filter = filter /\ log[1].region = region
    /\ log[2].filter # filter
    /\ filter = BinaryNode("not in", IdentifierNode("highway"),
                    ArrayNode(<<StringNode("a"), StringNode("no")>>))
    /\ crits = <<"[highway!=\"a\"][highway!=\"no\"]">>
    /\ query = log[1].query
    /\ query # ""

-----------------------------------------------------------------------------
(* The code generator, construct by construct *)

\* the queryBuilder after the walk of the tree the passes make of t
Generated(t) ==
    LET H == toDNF(WalkFoldNot(WalkInRange(WalkInArray(Parse(t), RootSlot),
                                           RootSlot), RootSlot))
    IN  WalkQuery(NewQueryBuilder, H, H.root)

\* t compiles on its own to one fragment
OneFragment(t) == Generated(t).err = "" /\ Len(Generated(t).stack) = 1

Fragment(t) == Generated(t).stack[1]

\* a disjunction (conjunction) at the root whose operands each compile to one
\* fragment, and which the passes leave a disjunction (conjunction) of them
IsRootPair(t, ops) ==
    /\ t.k = "Binary" /\ t.op \in ops
    /\ OneFragment(t.c[1]) /\ OneFragment(t.c[2])

\* C22 as stated: at the root the two fragments of an or are kept as two
\* criteria only when both are wrapped; in every other case, also when
\* exactly one is wrapped, they are joined as lhs||rhs.
C22_Original ==
    (pc = "generated" /\ IsRootPair(filter, {"or", "||"}) /\ qb.err = "") =>
        qb.stack = IF isWrapped(Fragment(filter.c[1])) /\ isWrapped(Fragment(filter.c[2]))
                   THEN <<Fragment(filter.c[1]), Fragment(filter.c[2])>>
                   ELSE <<Fragment(filter.c[1]) \o "||" \o Fragment(filter.c[2])>>

\* C22: at the root the two fragments of an or are joined as lhs||rhs only
\* when neither of them is wrapped; when one or both are wrapped they are
\* kept as two separate criteria.  Below a node that is not a connective they
\* are always joined as lhs||rhs.
C22_RootOr ==
    /\ (pc = "generated" /\ IsRootPair(filter, {"or", "||"}) /\ qb.err = "") =>
            qb.stack = IF ~isWrapped(Fragment(filter.c[1])) /\ ~isWrapped(Fragment(filter.c[2]))
                       THEN <<Fragment(filter.c[1]) \o "||" \o Fragment(filter.c[2])>>
                       ELSE <<Fragment(filter.c[1]), Fragment(filter.c[2])>>
    /\ (pc = "generated" /\ filter.k = "Function" /\ filter.val = "count"
            /\ Len(filter.c) = 1 /\ filter.c[1].k = "Binary"
            /\ filter.c[1].op \in {"or", "||"}
            /\ filter.c[1].c[1].k = "Identifier" /\ filter.c[1].c[2].k = "Identifier") =>
            qb.stack = <<"count(" \o filter.c[1].c[1].val \o "||"
                            \o filter.c[1].c[2].val \o ")">>

\* highway != 'no' or lanes >= 2: one side wrapped, the other not, two criteria
C22_Witness ==
    /\ pc = "criteria"
    /\ filter = BinaryNode("or",
                    BinaryNode("!=", IdentifierNode("access"), StringNode("no")),
                    BinaryNode(">=", IdentifierNode("lanes"), IntegerNode(2)))
    /\ qb.stack = <<"[access!=\"no\"]", "(if:t[\"lanes\"]>=2)">>
    /\ crits = qb.stack

WrapIf(str) == IF isWrapped(str) THEN str ELSE "(if:" \o str \o ")"

\* a conjunction at the root of two operands that compile to one fragment
\* each and hold no disjunction for toDNF to distribute
IsRootConjunction(t) ==
    /\ IsRootPair(t, {"and", "&&"})
    /\ IsConjunction(Normalized(t))
    /\ InDNF(Normalized(t))

\* C23 as stated: at the root the fragments of an and are concatenated when
\* both are wrapped and, in every other case, also when neither is wrapped,
\* each wrapped as (if:...) and concatenated.
C23_Original ==
    (pc = "generated" /\ IsRootConjunction(filter) /\ qb.err = "") =>
        qb.stack = <<WrapIf(Fragment(filter.c[1])) \o WrapIf(Fragment(filter.c[2]))>>

\* C23: at the root the fragments of an and are joined as lhs&&rhs when
\* neither of them is wrapped; when one or both are wrapped, each unwrapped
\* one is wrapped as (if:...) and the two are concatenated.  Below a node that
\* is not a connective they are joined as lhs&&rhs.
C23_RootAnd ==
    /\ (pc = "generated" /\ IsRootConjunction(filter) /\ qb.err = "") =>
            qb.stack = IF ~isWrapped(Fragment(filter.c[1])) /\ ~isWrapped(Fragment(filter.c[2]))
                       THEN <<Fragment(filter.c[1]) \o "&&" \o Fragment(filter.c[2])>>
                       ELSE <<WrapIf(Fragment(filter.c[1])) \o WrapIf(Fragment(filter.c[2]))>>
    /\ (pc = "generated" /\ filter.k = "Function" /\ filter.val = "count"
            /\ Len(filter.c) = 1 /\ filter.c[1].k = "Binary"
            /\ filter.c[1].op \in {"and", "&&"}
            /\ filter.c[1].c[1].k = "Identifier" /\ filter.c[1].c[2].k = "Identifier") =>
            qb.stack = <<"count(" \o filter.c[1].c[1].val \o "&&"
                            \o filter.c[1].c[2].val \o ")">>

\* lanes >= 2 and count(highway): neither side wrapped, one fragment joined
\* with &&, wrapped as a whole when buildCriteria returns
C23_Witness ==
    /\ pc = "criteria"
    /\ filter = BinaryNode("and",
                    BinaryNode(">=", IdentifierNode("lanes"), IntegerNode(2)),
                    FunctionNode("count", <<IdentifierNode("highway")>>))
    /\ crits = <<"(if:t[\"lanes\"]>=2&&count(highway))">>

\* the fragment of an argument that is an identifier or a literal
ArgumentText(t) ==
    CASE t.k = "Identifier" -> IF HasNonLetter(t.val) THEN Quote(t.val) ELSE t.val
      [] t.k = "String" -> Quote(t.val)
      [] t.k = "Integer" -> Itoa(t.num)

RECURSIVE ArgumentsInOrder(_, _, _)
ArgumentsInOrder(as, i, sep) ==
    IF i > Len(as) THEN ""
    ELSE (IF i > 1 THEN sep ELSE "") \o ArgumentText(as[i])
            \o ArgumentsInOrder(as, i + 1, sep)

RECURSIVE ArgumentsReversed(_, _)
ArgumentsReversed(as, i) ==
    IF i = 0 THEN "" ELSE ArgumentText(as[i]) \o ArgumentsReversed(as, i - 1)

IsPlainCall(t) ==
    /\ t.k = "Function"
    /\ \A i \in 1..Len(t.c) : t.c[i].k \in {"Identifier", "String", "Integer"}

\* C24: a call that is not a root-level is_tag of one argument is emitted as
\* name(args...) with the fragments of the arguments in the left-to-right
\* order of the call (written one after the other, or separated by commas),
\* for every arity.
C24_ArgumentOrder ==
    /\ (pc = "generated" /\ IsPlainCall(filter)
            /\ ~(filter.val = "is_tag" /\ Len(filter.c) = 1)) =>
            \E sep \in {"", ","} :
                qb.stack = <<filter.val \o "(" \o ArgumentsInOrder(filter.c, 1, sep) \o ")">>
    /\ (pc = "generated" /\ filter.k = "Binary" /\ filter.op = ">"
            /\ IsPlainCall(filter.c[1]) /\ filter.c[2] = IntegerNode(2)) =>
            \E sep \in {"", ","} :
                qb.stack = <<filter.c[1].val \o "("
                                \o ArgumentsInOrder(filter.c[1].c, 1, sep) \o ")>2">>

\* what the generator writes: the fragments of the arguments from the last
\* to the first, with nothing between them
C24_Reversed ==
    /\ (pc = "generated" /\ IsPlainCall(filter)
            /\ ~(filter.val = "is_tag" /\ Len(filter.c) = 1)) =>
            qb.stack = <<filter.val \o "(" \o ArgumentsReversed(filter.c, Len(filter.c)) \o ")">>
    /\ (pc = "generated" /\ filter.k = "Binary" /\ filter.op = ">"
            /\ IsPlainCall(filter.c[1]) /\ filter.c[2] = IntegerNode(2)) =>
            qb.stack = <<filter.c[1].val \o "("
                            \o ArgumentsReversed(filter.c[1].c, Len(filter.c[1].c)) \o ")>2">>

\* count(highway, 'b', 12) compiles to count(12"b"highway)
C24_ReversedCall ==
    /\ pc = "generated"
    /\ filter = FunctionNode("count", <<IdentifierNode("highway"), StringNode("b"),
                                        IntegerNode(12)>>)
    /\ qb.stack = <<"count(12\"b\"highway)">>

-----------------------------------------------------------------------------
(* The shape of the tree between the passes *)

Kids(H, id) == {H.n[id].kids[i] : i \in 1..Len(H.n[id].kids)}

\* no node is reachable from one of its own children
NoCycle(H) == \A id \in Reachable(H) : id \notin ReachClosure(H, Kids(H, id))

\* every node is referenced from exactly one slot
ExclusiveOwnership(H) == \A id \in Reachable(H) : Cardinality(Owners(H, id)) = 1

\* C25: after each rewrite pass the expression is a tree with exclusive
\* ownership: every node is referenced from exactly one parent slot, no
\* subtree is shared between two parents and there is no cycle.
C25_ExclusiveOwnership ==
    pc \in {"inArray", "inRange", "foldNot", "dnf"} =>
        (ExclusiveOwnership(tree) /\ NoCycle(tree))

\* the part that holds: the passes build no cycle
C25_NoCycle ==
    pc \in {"parsed", "inArray", "inRange", "foldNot", "dnf"} => NoCycle(tree)

\* highway in ['a', 'no']: both comparisons hold the same left operand
C25_SharedLeft ==
    /\ pc = "inArray"
    /\ filter = BinaryNode("in", IdentifierNode("highway"),
                    ArrayNode(<<StringNode("a"), StringNode("no")>>))
    /\ tree.n[tree.n[tree.root].kids[1]].kids[1] = tree.n[tree.n[tree.root].kids[2]].kids[1]
    /\ ~ExclusiveOwnership(tree)

\* the nodes of the outermost chain: the and / or nodes reached from the root
\* through and / or nodes only
ChainStep(H, S) ==
    S \cup {id \in UNION {Kids(H, p) : p \in S} :
                asBinaryAnd(H, id) \/ asBinaryOr(H, id)}

RECURSIVE ChainClosure(_, _)
ChainClosure(H, S) ==
    IF ChainStep(H, S) = S THEN S ELSE ChainClosure(H, ChainStep(H, S))

ChainNodes(H) ==
    IF asBinaryAnd(H, H.root) \/ asBinaryOr(H, H.root)
    THEN ChainClosure(H, {H.root})
    ELSE {}

\* the operands of the outermost chain: the subtrees rooted at its first
\* nodes that are not and / or
RECURSIVE ChainLeaves(_)
ChainLeaves(t) ==
    IF IsLogical(t) THEN ChainLeaves(t.c[1]) \cup ChainLeaves(t.c[2]) ELSE {t}

\* one round of toDNF
DnfRound(H) == WalkDnf([h |-> H, depth |-> 0, applied |-> FALSE], RootSlot).h

\* C26: toDNF rewrites only conjunctions of the outermost and / or chain:
\* every node that is not on that chain is left as it is by the first round
\* and by the whole of toDNF, and the subtrees rooted at the non-logical
\* operands of the chain are the same before and after, also when they hold
\* an and over an or.
C26_OutermostChainOnly ==
    [][pc = "foldNot" =>
        /\ \A id \in NodeIds(tree) \ ChainNodes(tree) :
                /\ DnfRound(tree).n[id] = tree.n[id]
                /\ tree'.n[id] = tree.n[id]
        /\ ChainLeaves(TreeOf(DnfRound(tree))) = ChainLeaves(TreeOf(tree))
        /\ ChainLeaves(TreeOf(tree')) = ChainLeaves(TreeOf(tree))]_vars

\* (oneway or count((oneway or access) and highway)) and is_tag(highway): the
\* outer conjunction is distributed, the one inside count is not
C26_Witness ==
    /\ pc = "dnf"
    /\ filter = BinaryNode("and",
                    BinaryNode("or", IdentifierNode("oneway"),
                               FunctionNode("count", <<AndOverOr>>)),
                    FunctionNode("is_tag", <<IdentifierNode("highway")>>))
    /\ TreeOf(tree) =
        BinaryNode("or",
            BinaryNode("and", IdentifierNode("oneway"),
                       FunctionNode("is_tag", <<IdentifierNode("highway")>>)),
            BinaryNode("and", FunctionNode("count", <<AndOverOr>>),
                       FunctionNode("is_tag", <<IdentifierNode("highway")>>)))

IsCall(t) == t.k = "Function"

\* a binary node with a call as an operand, both operands being calls of
\* plain arguments, identifiers, integers or strings
HasCallOperand(t) ==
    /\ t.k = "Binary"
    /\ IsCall(t.c[1]) \/ IsCall(t.c[2])
    /\ \A i \in 1..2 : IsPlainCall(t.c[i]) \/ t.c[i].k \in {"Identifier", "Integer", "String"}

\* the fragment of an operand in nested context
OperandText(t) ==
    IF IsCall(t) THEN t.val \o "(" \o ArgumentsReversed(t.c, Len(t.c)) \o ")"
    ELSE ArgumentText(t)

\* the nested form of a binary node that is not a connective
NestedBinaryText(t) ==
    LET l == OperandText(t.c[1])
        r == OperandText(t.c[2])
        op == IF t.op \in {"contains", "startsWith", "endsWith"} THEN "~" ELSE t.op
    IN  IF t.op \in {">", ">=", "<", "<="} /\ t.c[1].k = "Identifier"
        THEN "t[" \o Quote(l) \o "]" \o op \o r
        ELSE l \o op \o r

-----------------------------------------------------------------------------
(* The negation stack during the walk of the generator *)

\* The walk of queryBuilder over the subtree at id, observed: R.q is the
\* queryBuilder, R.ok stays true as long as, with no error set,
\*  - Enter pushes a flag exactly at depth 0 on a not / and / or node, true
\*    for not and false for and / or,
\*  - Exit pops a true flag only at the operand of a not that pushed it, with
\*    nothing pushed in between (par: the parent node, flagAt: the height of
\*    the negation stack right after the push of the parent, 0 when the
\*    parent pushed no true flag),
\*  - the true flag of a not is gone when its operand has been left.
RECURSIVE ObservedWalk(_, _, _, _, _), ObservedKids(_, _, _, _, _)
ObservedWalk(R, H, id, par, flagAt) ==
    LET q0 == R.q
        q1 == QueryBuilderEnter(q0, H, id)
        pushed == Len(q1.not) > Len(q0.not)
        chain == asUnaryNot(H, id) \/ asBinaryAnd(H, id) \/ asBinaryOr(H, id)
        okEnter == /\ pushed <=> (q0.depth = 0 /\ chain)
                   /\ pushed => q1.not = Append(q0.not, asUnaryNot(H, id))
        mine == IF pushed /\ asUnaryNot(H, id) THEN Len(q1.not) ELSE 0
        R2 == ObservedKids([q |-> q1, ok |-> R.ok /\ okEnter], H, id, 1, mine)
        q2 == R2.q
        q3 == QueryBuilderExit(q2, H, id)
        live == q2.err = "" /\ ~q2.panic
        poppedTrue == /\ live
                      /\ Len(q3.not) < Len(q2.not)
                      /\ q2.not[Len(q2.not)]
        okExit == /\ poppedTrue => (par # 0 /\ asUnaryNot(H, par)
                                        /\ flagAt = Len(q2.not))
                  /\ (live /\ flagAt # 0) => (poppedTrue /\ Len(q3.not) = flagAt - 1)
    IN  [q |-> q3, ok |-> R2.ok /\ (live => okExit)]
ObservedKids(R, H, id, i, mine) ==
    IF R.q.panic \/ i > Len(H.n[id].kids) THEN R
    ELSE ObservedKids(ObservedWalk(R, H, H.n[id].kids[i], id, mine), H, id, i + 1, mine)

Observed(H) == ObservedWalk([q |-> NewQueryBuilder, ok |-> TRUE], H, H.root, 0, 0)

\* C28: in the walk of the generator over a tree the passes produced, the
\* true flag pushed on entering a root-level not is popped by the Exit of the
\* operand of that not and by no other node, the flags pushed by and / or are
\* false, and an error-free walk ends with an empty negation stack and a
\* depth of 0.
C28_NegationStack ==
    pc = "generated" =>
        /\ Observed(tree).q = qb
        /\ Observed(tree).ok
        /\ qb.err = "" => (qb.not = <<>> /\ qb.depth = 0)

\* not oneway or access != 'no': the flag of the not is popped by oneway,
\* the flag of the or by the not
C28_Witness ==
    /\ pc = "generated"
    /\ filter = BinaryNode("or", UnaryNode("not", IdentifierNode("oneway")),
                    BinaryNode("!=", IdentifierNode("access"), StringNode("no")))
    /\ TreeOf(tree) = filter
    /\ Observed(tree).ok
    /\ qb.stack = <<"[oneway=\"no\"]", "[access!=\"no\"]">>
    /\ qb.not = <<>>
    /\ qb.depth = 0

-----------------------------------------------------------------------------
(* The fragment stack during the walk of the generator *)

\* The walk of queryBuilder over the subtree at id, observed: R.ok stays true
\* as long as, with no error set, the walk of a subtree
\*  - never panics on an empty stack,
\*  - leaves the fragments that were on the stack when it began as they were,
\*  - leaves exactly one fragment on top of them, or one or more when the
\*    subtree is an or entered at depth 0.
RECURSIVE StackWalk(_, _, _), StackKids(_, _, _, _)
StackWalk(R, H, id) ==
    LET q0 == R.q
        rootOr == q0.depth = 0 /\ asBinaryOr(H, id)
        R2 == StackKids([q |-> QueryBuilderEnter(q0, H, id), ok |-> R.ok], H, id, 1)
        q3 == QueryBuilderExit(R2.q, H, id)
        h0 == Len(q0.stack)
        okExit ==
            /\ ~q3.panic
            /\ q3.err = "" =>
                /\ Len(q3.stack) >= h0
                /\ SubSeq(q3.stack, 1, h0) = q0.stack
                /\ IF rootOr THEN Len(q3.stack) >= h0 + 1
                   ELSE Len(q3.stack) = h0 + 1
    IN  [q |-> q3, ok |-> R2.ok /\ okExit]
StackKids(R, H, id, i) ==
    IF R.q.panic \/ i > Len(H.n[id].kids) THEN R
    ELSE StackKids(StackWalk(R, H, H.n[id].kids[i]), H, id, i + 1)

StackObserved(H) == StackWalk([q |-> NewQueryBuilder, ok |-> TRUE], H, H.root)

\* the number of top-level disjuncts
RECURSIVE Disjuncts(_)
Disjuncts(t) ==
    IF IsDisjunction(t) THEN Disjuncts(t.c[1]) + Disjuncts(t.c[2]) ELSE 1

\* C29: for every tree that went through the rewrite passes, toDNF having
\* stopped before the cap, every Exit of the generator finds on the stack the
\* fragments it pops, they are fragments of its own subtree, every subtree
\* leaves exactly one fragment except an or at depth 0, which may leave
\* several, and a successful walk ends with at least 1 and at most D
\* fragments, D being the number of top-level disjuncts.
C29_StackDiscipline ==
    pc = "generated" =>
        /\ StackObserved(tree).q = qb
        /\ StackObserved(tree).ok
        /\ qb.err = "" =>
            (Len(qb.stack) >= 1 /\ Len(qb.stack) <= Disjuncts(TreeOf(tree)))

\* (highway == 'a' or is_tag(access)) or oneway: the inner or leaves two
\* fragments, the outer or pops the upper two of the three and pushes them
\* back, three criteria at the end
C29_Witness ==
    /\ pc = "generated"
    /\ TreeOf(tree) = BinaryNode("or",
                        BinaryNode("or",
                            BinaryNode("==", IdentifierNode("highway"), StringNode("a")),
                            FunctionNode("is_tag", <<IdentifierNode("access")>>)),
                        IdentifierNode("oneway"))
    /\ StackObserved(tree).ok
    /\ qb.stack = <<"[highway=\"a\"]", "[access]", "[oneway=\"yes\"]">>
    /\ Disjuncts(TreeOf(tree)) = 3


\* ------------------------------------------------------------------------
\* What distributeAndFoldNot leaves behind
\* ------------------------------------------------------------------------

\* the operators with a dual in operatorPairs once init() has run
RegisteredOperators ==
    {"and", "or", "&&", "||", "==", "!=", ">=", "<", ">", "<=", "in", "not in"}

\* a negation the pass acts on: its operand is a binary node with a
\* registered dual, another negation or a boolean literal
IsFoldable(t) ==
    /\ IsNegation(t)
    /\ \/ t.c[1].k = "Binary" /\ t.c[1].op \in RegisteredOperators
       \/ IsNegation(t.c[1])
       \/ t.c[1].k = "Bool"

RECURSIVE HasFoldable(_)
HasFoldable(t) ==
    \/ IsFoldable(t)
    \/ \E i \in 1..Len(t.c) : HasFoldable(t.c[i])

\* C30: after the distributeAndFoldNot pass no not / ! is left whose operand
\* is a binary node with a registered dual operator, another negation or a
\* boolean literal, and the pass run a second time on the tree it produced
\* leaves every node and every slot as it is.
C30_NothingLeftToFold ==
    (pc = "foldNot" /\ filter # ParseFailure) =>
        /\ ~HasFoldable(TreeOf(tree))
        /\ WalkFoldNot(tree, RootSlot) = tree

\* not not not (highway == 'a' and oneway): a negation of a negation, of a
\* connective and of a comparison were all in the tree handed to the pass;
\* what is left is highway != 'a' or not oneway, whose one negation holds an
\* identifier, and a second run returns the same heap
C30_Witness ==
    /\ pc = "foldNot"
    /\ filter = NotChain(3, BinaryNode("and",
                    BinaryNode("==", IdentifierNode("highway"), StringNode("a")),
                    IdentifierNode("oneway")))
    /\ HasFoldable(filter)
    /\ TreeOf(tree) = BinaryNode("or",
                    BinaryNode("!=", IdentifierNode("highway"), StringNode("a")),
                    UnaryNode("not", IdentifierNode("oneway")))
    /\ WalkFoldNot(tree, RootSlot) = tree
=============================================================================
